---- MODULE Spec2Model ----
(***************************************************************************)
(* Model of the HTML template literal extension: the diagnostic provider   *)
(* (updateDiagnostics, extractTemplateContent, validateHTML, ...), the     *)
(* comment-membership query isInsideComment and the folding provider.      *)
(*                                                                         *)
(* A text is a sequence of characters, each a one-character string (the    *)
(* backtick, which a TLA+ string cannot hold, is the value Backtick; the   *)
(* white-space characters beyond ASCII are written as their code points).  *)
(* Offsets are 0-based as in the source; At(s, i) is the source's s[i].    *)
(***************************************************************************)
EXTENDS Integers, Sequences, FiniteSets, TLC

VARIABLES
    doc,          \* the text under work: the document, or the literal's text
    edits,        \* number of changes made to doc (TextDocument.version)
    pc,           \* "call" | "scan" | "done": position of the running handler
    html,         \* validateHTML: cleanedHtml, the text the tag loop scans
    offset,       \* validateHTML: its offset argument
    lastIndex,    \* validateHTML: tagRegex.lastIndex
    stack,        \* validateHTML: the open-tag stack
    diagnostics,  \* the diagnostics array of the running/last pass
    validated,    \* offset argument of every validateHTML call of the last pass
    content,      \* the value returned by extractTemplateContent
    foldingRanges,           \* provideFoldingRanges: the ranges pushed so far
    processedPositions,      \* provideFoldingRanges: the set of that name
    filteredRanges,          \* provideFoldingRanges: the value returned
    isCancellationRequested, \* the CancellationToken of the running request
    documents,               \* the open documents: uri -> languageId, text
    diagnosticCollection,    \* uri -> the diagnostics set for the document
    document,                \* the argument of the last updateDiagnostics call
    frames,                  \* validateHTML: the callers waiting for a nested call
    nestedIndex,             \* validateHTML: position in the nestedTemplates loop
    iterations,              \* validateHTML: passes of the replacement loop
    replacementsMade,        \* validateHTML: the flag of that name
    foldingStrategy,         \* the global setting editor.foldingStrategy
    originalFoldingStrategy, \* the module variable of that name
    pendingUpdates,          \* configuration updates requested, not yet written
    notifications,           \* information messages shown and not yet answered
    activations,             \* number of times activate has run
    commands,                \* the commands passed to executeCommand
    settingBefore            \* the setting when activate last started

\* The variables of the folding provider, of the workspace, of a running
\* validateHTML call and of the editor configuration
foldVars == <<foldingRanges, processedPositions, filteredRanges,
              isCancellationRequested>>
storeVars == <<documents, diagnosticCollection, document>>
callVars == <<frames, nestedIndex, iterations, replacementsMade>>
configVars == <<foldingStrategy, originalFoldingStrategy, pendingUpdates,
                notifications, activations, commands, settingBefore>>

vars == <<doc, edits, pc, html, offset, lastIndex, stack, diagnostics,
          validated, content, foldVars, storeVars, callVars, configVars>>

-----------------------------------------------------------------------------
(* Characters and strings                                                  *)

Undefined == "undefined"    \* s[i] for i outside the string
Null == <<"null">>          \* a null string result; no text equals it, since
                            \* every element of a text is a single character
NoMatch == [index |-> -1]   \* RegExp.exec returning null
Backtick == "backtick"      \* the character U+0060

LowerLetters == <<"a","b","c","d","e","f","g","h","i","j","k","l","m",
                  "n","o","p","q","r","s","t","u","v","w","x","y","z">>
UpperLetters == <<"A","B","C","D","E","F","G","H","I","J","K","L","M",
                  "N","O","P","Q","R","S","T","U","V","W","X","Y","Z">>
Digits == {"0","1","2","3","4","5","6","7","8","9"}

Range(f) == {f[k] : k \in DOMAIN f}

Letters == Range(LowerLetters) \cup Range(UpperLetters)
AlphaNum == Letters \cup Digits
\* The other characters of the class \s of a JavaScript regular expression
\* (and of String.prototype.trim), each written as its code point
UnicodeSpaces ==
    { "U+000B", "U+00A0", "U+FEFF", "U+1680", "U+2000", "U+2001", "U+2002",
      "U+2003", "U+2004", "U+2005", "U+2006", "U+2007", "U+2008", "U+2009",
      "U+200A", "U+2028", "U+2029", "U+202F", "U+205F", "U+3000" }

WhiteSpace == {" ", "\t", "\n", "\r", "\f"} \cup UnicodeSpaces

\* s[i] of the source (0-based), undefined outside the string
At(s, i) == IF i >= 0 /\ i < Len(s) THEN s[i + 1] ELSE Undefined

\* s.substring(a, b) for 0 <= a; b is clipped to the length
Substring(s, a, b) ==
    LET hi == IF b > Len(s) THEN Len(s) ELSE b
        lo == IF a < 0 THEN 0 ELSE a
    IN  IF lo >= hi THEN <<>> ELSE SubSeq(s, lo + 1, hi)

\* s.substring(a)
SubstringFrom(s, a) == Substring(s, a, Len(s))

\* s.startsWith(p, at)
StartsWithAt(s, p, at) ==
    /\ at + Len(p) <= Len(s)
    /\ \A k \in 1..Len(p) : s[at + k] = p[k]

StartsWith(s, p) == StartsWithAt(s, p, 0)

EndsWith(s, p) == Len(p) <= Len(s) /\ StartsWithAt(s, p, Len(s) - Len(p))

\* String.prototype.toLowerCase on one character
LowerChar(c) ==
    IF \E k \in 1..Len(UpperLetters) : UpperLetters[k] = c
    THEN LowerLetters[CHOOSE k \in 1..Len(UpperLetters) : UpperLetters[k] = c]
    ELSE c

ToLowerCase(s) == [k \in 1..Len(s) |-> LowerChar(s[k])]

Min(S) == CHOOSE x \in S : \A y \in S : x <= y

-----------------------------------------------------------------------------
(* vscode.TextDocument.positionAt / offsetAt and vscode.Range              *)

ClampOffset(text, off) ==
    IF off < 0 THEN 0 ELSE IF off > Len(text) THEN Len(text) ELSE off

PositionAt(text, off) ==
    LET o == ClampOffset(text, off)
        breaks == {k \in 1..o : text[k] = "\n"}
        lineStart == IF breaks = {} THEN 0
                     ELSE CHOOSE k \in breaks : \A j \in breaks : j <= k
    IN  [line |-> Cardinality(breaks), character |-> o - lineStart]

OffsetAt(text, pos) ==
    LET starts == {0} \cup {k \in 1..Len(text) : text[k] = "\n"}
        ofLine == {k \in starts :
                     Cardinality({j \in 1..k : text[j] = "\n"}) = pos.line}
    IN  IF ofLine = {} THEN Len(text)
        ELSE ClampOffset(text, (CHOOSE k \in ofLine : TRUE) + pos.character)

PositionBefore(p, q) ==
    p.line < q.line \/ (p.line = q.line /\ p.character <= q.character)

\* new vscode.Range(a, b): start is the earlier of the two positions
NewRange(a, b) ==
    IF PositionBefore(a, b) THEN [start |-> a, end |-> b]
    ELSE [start |-> b, end |-> a]

\* the document text a range covers
TextOfRange(text, r) ==
    Substring(text, OffsetAt(text, r.start), OffsetAt(text, r.end))

-----------------------------------------------------------------------------
(* validateHTML: the tag loop                                              *)

\* selfClosingTags of isSelfClosingTag
selfClosingTags ==
    { <<"a","r","e","a">>, <<"b","a","s","e">>, <<"b","r">>, <<"c","o","l">>,
      <<"e","m","b","e","d">>, <<"h","r">>, <<"i","m","g">>,
      <<"i","n","p","u","t">>, <<"l","i","n","k">>, <<"m","e","t","a">>,
      <<"p","a","r","a","m">>, <<"s","o","u","r","c","e">>,
      <<"t","r","a","c","k">>, <<"w","b","r">> }

\* (mutant) no element is void
isSelfClosingTag_NoVoid(tagName) == FALSE

isSelfClosingTag(tagName) == ToLowerCase(tagName) \in selfClosingTags

\* end (exclusive) of the longest run of characters of class C starting at p
RECURSIVE RunEnd(_, _, _)
RunEnd(s, p, C) == IF At(s, p) \in C THEN RunEnd(s, p + 1, C) ELSE p

\* first index >= p holding character c, or -1
IndexOfChar(s, c, p) ==
    LET hits == {k \in p..(Len(s) - 1) : At(s, k) = c}
    IN  IF hits = {} THEN -1 ELSE Min(hits)

\* tagRegex = /<\/?([a-zA-Z][a-zA-Z0-9]*)[^>]*>/ anchored at index p:
\* the match record, or NoMatch
TagMatchAt(s, p) ==
    IF At(s, p) # "<" THEN NoMatch
    ELSE LET q == IF At(s, p + 1) = "/" THEN p + 2 ELSE p + 1
         IN  IF At(s, q) \notin Letters THEN NoMatch
             ELSE LET e == RunEnd(s, q + 1, AlphaNum)
                      g == IndexOfChar(s, ">", e)
                  IN  IF g = -1 THEN NoMatch
                      ELSE [index |-> p,
                            full |-> Substring(s, p, g + 1),
                            name |-> Substring(s, q, e)]

\* tagRegex.exec(s) with lastIndex = from: the leftmost match at or after from
TagExec(s, from) ==
    LET hits == {p \in from..(Len(s) - 1) : TagMatchAt(s, p).index # -1}
    IN  IF hits = {} THEN NoMatch ELSE TagMatchAt(s, Min(hits))

Diagnostic(text, a, b, msg, sev) ==
    [range |-> NewRange(PositionAt(text, a), PositionAt(text, b)),
     message |-> msg, severity |-> sev]

UnmatchedMessage(tagName) ==
    <<"Unmatched closing tag </">> \o tagName \o <<">">>

ExpectedMessage(lastTag, tagName) ==
    <<"Expected closing tag </">> \o lastTag \o <<"> but found </">>
        \o tagName \o <<">">>

UnclosedMessage(tagName) == <<"Unclosed tag <">> \o tagName \o <<">">>

isClosing(m) == StartsWith(m.full, <<"<", "/">>)

\* (mutant) the self-closing syntax is not recognised
isSelfClosing_VoidOnly(m) == isSelfClosingTag(m.name)

isSelfClosing(m) ==
    EndsWith(m.full, <<"/", ">">>) \/ isSelfClosingTag(m.name)

\* (mutant) a closing tag read on an empty stack is dropped silently
ProcessTag_SilentUnmatched(text, off, st, m) ==
    LET pos == off + m.index
    IN  IF isClosing(m)
        THEN IF Len(st.stack) = 0
             THEN st
             ELSE LET last == st.stack[Len(st.stack)]
                      popped == SubSeq(st.stack, 1, Len(st.stack) - 1)
                  IN  IF last.tag # m.name
                      THEN [stack |-> popped,
                            diagnostics |-> Append(st.diagnostics,
                                Diagnostic(text, pos, pos + Len(m.full),
                                           ExpectedMessage(last.tag, m.name),
                                           "Error"))]
                      ELSE [stack |-> popped, diagnostics |-> st.diagnostics]
        ELSE IF ~isSelfClosing(m)
             THEN [stack |-> Append(st.stack, [tag |-> m.name, pos |-> pos]),
                   diagnostics |-> st.diagnostics]
             ELSE st

\* (mutant) tag names are compared without regard to case
ProcessTag_IgnoreCase(text, off, st, m) ==
    LET pos == off + m.index
    IN  IF isClosing(m)
        THEN IF Len(st.stack) = 0
             THEN [stack |-> st.stack,
                   diagnostics |-> Append(st.diagnostics,
                       Diagnostic(text, pos, pos + Len(m.full),
                                  UnmatchedMessage(m.name), "Error"))]
             ELSE LET last == st.stack[Len(st.stack)]
                      popped == SubSeq(st.stack, 1, Len(st.stack) - 1)
                  IN  IF ToLowerCase(last.tag) # ToLowerCase(m.name)
                      THEN [stack |-> popped,
                            diagnostics |-> Append(st.diagnostics,
                                Diagnostic(text, pos, pos + Len(m.full),
                                           ExpectedMessage(last.tag, m.name),
                                           "Error"))]
                      ELSE [stack |-> popped, diagnostics |-> st.diagnostics]
        ELSE IF ~isSelfClosing(m)
             THEN [stack |-> Append(st.stack, [tag |-> m.name, pos |-> pos]),
                   diagnostics |-> st.diagnostics]
             ELSE st

\* One iteration of the tag loop on match m: the new stack and diagnostics
ProcessTag(text, off, st, m) ==
    LET pos == off + m.index
    IN  IF isClosing(m)
        THEN IF Len(st.stack) = 0
             THEN [stack |-> st.stack,
                   diagnostics |-> Append(st.diagnostics,
                       Diagnostic(text, pos, pos + Len(m.full),
                                  UnmatchedMessage(m.name), "Error"))]
             ELSE LET last == st.stack[Len(st.stack)]
                      popped == SubSeq(st.stack, 1, Len(st.stack) - 1)
                  IN  IF last.tag # m.name
                      THEN [stack |-> popped,
                            diagnostics |-> Append(st.diagnostics,
                                Diagnostic(text, pos, pos + Len(m.full),
                                           ExpectedMessage(last.tag, m.name),
                                           "Error"))]
                      ELSE [stack |-> popped, diagnostics |-> st.diagnostics]
        ELSE IF ~isSelfClosing(m)
             THEN [stack |-> Append(st.stack, [tag |-> m.name, pos |-> pos]),
                   diagnostics |-> st.diagnostics]
             ELSE st

\* (mutant) the unclosed tags are reported innermost first
UnclosedDiagnostics_Reversed(text, stk) ==
    [k \in 1..Len(stk) |->
        LET e == stk[Len(stk) + 1 - k]
        IN  Diagnostic(text, e.pos, e.pos + Len(e.tag) + 2,
                       UnclosedMessage(e.tag), "Warning")]

\* The loop over the tags left on the stack when the scan ends
UnclosedDiagnostics(text, stk) ==
    [k \in 1..Len(stk) |->
        Diagnostic(text, stk[k].pos, stk[k].pos + Len(stk[k].tag) + 2,
                   UnclosedMessage(stk[k].tag), "Warning")]

\* The whole tag loop of validateHTML on cleanedHtml, appending to diags;
\* TagLoopAt is the iteration for the match m
RECURSIVE TagLoop(_, _, _, _, _)
TagLoopAt(text, off, cleaned, st, m) ==
    IF m.index = -1
    THEN st.diagnostics \o UnclosedDiagnostics(text, st.stack)
    ELSE TagLoop(text, off, cleaned, m.index + Len(m.full),
                 ProcessTag(text, off, st, m))

TagLoop(text, off, cleaned, from, st) ==
    TagLoopAt(text, off, cleaned, st, TagExec(cleaned, from))

-----------------------------------------------------------------------------
(* The leader pattern: tagRegex of updateDiagnostics, nestedTemplateRegex  *)
(* of validateHTML                                                         *)

\* tagPatterns default of the constructor
tagPatterns == << <<"h","t","m","l">>, <<"d","o","m">> >>

IdStartChars == Letters \cup {"_", "$"}
IdChars == AlphaNum \cup {"_", "$"}
WordChars == AlphaNum \cup {"_"}

\* \b at index p
WordBoundary(s, p) == (At(s, p - 1) \in WordChars) # (At(s, p) \in WordChars)

\* /\*\s*html\s*\*/\s* anchored at p: the index after it, or -1
AnnotationEnd(s, p) ==
    IF ~StartsWithAt(s, <<"/", "*">>, p) THEN -1
    ELSE LET a == RunEnd(s, p + 2, WhiteSpace)
         IN  IF ~StartsWithAt(s, <<"h","t","m","l">>, a) THEN -1
             ELSE LET b == RunEnd(s, a + 4, WhiteSpace)
                  IN  IF ~StartsWithAt(s, <<"*", "/">>, b) THEN -1
                      ELSE RunEnd(s, b + 2, WhiteSpace)

\* \b[a-zA-Z_$][a-zA-Z0-9_$]*\s*/\*\s*html\s*\*/\s* anchored at p
IdentAnnotationEnd(s, p) ==
    IF WordBoundary(s, p) /\ At(s, p) \in IdStartChars
    THEN AnnotationEnd(s, RunEnd(s, RunEnd(s, p + 1, IdChars), WhiteSpace))
    ELSE -1

\* (?:t1|t2|...)\s* anchored at p, followed by a character of class After:
\* the ends the alternatives give, in the order the pattern tries them
RECURSIVE NameEnds(_, _, _, _)
NameEnds(s, p, names, k) ==
    IF k > Len(names) THEN <<>>
    ELSE (IF StartsWithAt(s, names[k], p)
          THEN <<RunEnd(s, p + Len(names[k]), WhiteSpace)>>
          ELSE <<>>) \o NameEnds(s, p, names, k + 1)

\* An alternative that matched up to e, if it did
Matched(e) == IF e # -1 THEN <<e>> ELSE <<>>

\* The ends of group 1 at p, in the order the alternation tries them:
\* a configured name, an identifier with the annotation, the bare annotation
LeaderEnds(s, p, names, bare) ==
    NameEnds(s, p, names, 1)
      \o Matched(IdentAnnotationEnd(s, p))
      \o (IF bare THEN Matched(AnnotationEnd(s, p)) ELSE <<>>)

\* The first of the ends that has a backtick after it
BacktickAfter(s, ends) ==
    LET ok == {k \in 1..Len(ends) : At(s, ends[k]) = Backtick}
    IN  IF ok = {} THEN -1 ELSE ends[Min(ok)]

\* The match that starts at p and has its backtick at e
LeaderMatch(p, e) == IF e = -1 THEN NoMatch ELSE [index |-> p, end |-> e + 1]

\* The leader pattern anchored at p: group 1 then a backtick
LeaderMatchAt(s, p, names, bare) ==
    LeaderMatch(p, BacktickAfter(s, LeaderEnds(s, p, names, bare)))

\* The match at the first of the indices hits
FirstLeader(s, hits, names, bare) ==
    IF hits = {} THEN NoMatch ELSE LeaderMatchAt(s, Min(hits), names, bare)

\* regex.exec with lastIndex = from
LeaderExec(s, from, names, bare) ==
    FirstLeader(s, {p \in from..(Len(s) - 1) :
                       LeaderMatchAt(s, p, names, bare).index # -1},
                names, bare)

-----------------------------------------------------------------------------
(* isInsideComment                                                         *)

Quotes == {"\"", "'"}

\* One iteration of the loop at s.i < beforeText.length
CommentStep(beforeText, s) ==
    LET char == At(beforeText, s.i)
        nextChar == At(beforeText, s.i + 1)
    IN  IF char = "\\" /\ (s.inString \/ s.inTemplateString)
        THEN [s EXCEPT !.i = s.i + 2]
        ELSE IF ~s.inComment /\ ~s.inTemplateString
                  /\ ~s.inString /\ char \in Quotes
        THEN [s EXCEPT !.inString = TRUE, !.stringChar = char, !.i = s.i + 1]
        ELSE IF ~s.inComment /\ ~s.inTemplateString
                  /\ s.inString /\ char = s.stringChar
        THEN [s EXCEPT !.inString = FALSE, !.i = s.i + 1]
        ELSE IF ~s.inComment /\ ~s.inString /\ char = Backtick
        THEN [s EXCEPT !.inTemplateString = ~s.inTemplateString,
                       !.templateDepth = IF s.inTemplateString THEN 0
                                         ELSE s.templateDepth,
                       !.i = s.i + 1]
        ELSE IF ~s.inComment /\ ~s.inString /\ s.inTemplateString
                  /\ char = "$" /\ nextChar = "{"
        THEN [s EXCEPT !.templateDepth = s.templateDepth + 1, !.i = s.i + 2]
        ELSE IF ~s.inComment /\ ~s.inString /\ s.inTemplateString
                  /\ char = "}" /\ s.templateDepth > 0
        THEN [s EXCEPT !.templateDepth = s.templateDepth - 1, !.i = s.i + 1]
        ELSE IF ~s.inString /\ char = "/" /\ nextChar = "*"
        THEN [s EXCEPT !.inComment = TRUE, !.i = s.i + 2]
        ELSE IF ~s.inString /\ char = "*" /\ nextChar = "/"
        THEN [s EXCEPT !.inComment = FALSE, !.i = s.i + 2]
        ELSE [s EXCEPT !.i = s.i + 1]

\* The scanner's variables when the loop is left
RECURSIVE CommentScan(_, _)
CommentScan(beforeText, s) ==
    IF s.i >= Len(beforeText) THEN s
    ELSE CommentScan(beforeText, CommentStep(beforeText, s))

isInsideComment(text, position) ==
    CommentScan(Substring(text, 0, position),
                [i |-> 0, inComment |-> FALSE, inString |-> FALSE,
                 inTemplateString |-> FALSE, templateDepth |-> 0,
                 stringChar |-> ""]).inComment

-----------------------------------------------------------------------------
(* extractTemplateContent                                                  *)

\* The scanner's variables before the loop
ExtractInit(startPos) ==
    [i |-> startPos, depth |-> 0, inString |-> FALSE,
     inNestedTemplate |-> FALSE, stringChar |-> "", returned |-> FALSE]

\* One iteration of the loop at s.i < text.length; returned is set when the
\* iteration executes the return, s.i then being the closing backtick
ExtractStep(text, s) ==
    LET char == At(text, s.i)
        nextChar == At(text, s.i + 1)
        prevChar == IF s.i > 0 THEN At(text, s.i - 1) ELSE ""
        braced == IF ~s.inString /\ ~s.inNestedTemplate
                  THEN IF char = "{" THEN s.depth + 1
                       ELSE IF char = "}" /\ s.depth > 0 THEN s.depth - 1
                       ELSE s.depth
                  ELSE s.depth
    IN  IF prevChar = "\\" /\ (s.inString \/ s.inNestedTemplate)
        THEN [s EXCEPT !.i = s.i + 1]
        ELSE IF s.depth > 0 /\ ~s.inNestedTemplate
                  /\ ~s.inString /\ char \in Quotes
        THEN [s EXCEPT !.inString = TRUE, !.stringChar = char, !.i = s.i + 1]
        ELSE IF s.depth > 0 /\ ~s.inNestedTemplate
                  /\ s.inString /\ char = s.stringChar
        THEN [s EXCEPT !.inString = FALSE, !.i = s.i + 1]
        ELSE IF s.depth > 0 /\ ~s.inString /\ char = Backtick
        THEN [s EXCEPT !.inNestedTemplate = ~s.inNestedTemplate,
                       !.i = s.i + 1]
        ELSE IF ~s.inString /\ ~s.inNestedTemplate
                  /\ char = "$" /\ nextChar = "{"
        THEN [s EXCEPT !.depth = s.depth + 1, !.i = s.i + 2]
        ELSE IF char = Backtick /\ braced = 0 /\ ~s.inNestedTemplate
        THEN [s EXCEPT !.depth = braced, !.returned = TRUE]
        ELSE [s EXCEPT !.depth = braced, !.i = s.i + 1]

\* The scanner's variables when the function returns
RECURSIVE ExtractRun(_, _)
ExtractRun(text, s) ==
    IF s.returned \/ s.i >= Len(text) THEN s
    ELSE ExtractRun(text, ExtractStep(text, s))

\* Offset of the backtick that ends the content, or -1 (unclosed template)
ReturnedAt(s) == IF s.returned THEN s.i ELSE -1

ExtractEnd(text, startPos) == ReturnedAt(ExtractRun(text, ExtractInit(startPos)))

\* text.substring(startPos, i) at the return, or null
ContentUpTo(text, startPos, end) ==
    IF end = -1 THEN Null ELSE Substring(text, startPos, end)

extractTemplateContent(text, startPos) ==
    ContentUpTo(text, startPos, ExtractEnd(text, startPos))

-----------------------------------------------------------------------------
(* replaceInterpolationsWithPlaceholders                                   *)

\* (mutant) the replacement is an opening tag
Placeholder_OpenTag == <<"<","p",">">>

Placeholder == <<"p","l","a","c","e","h","o","l","d","e","r">>

\* One iteration of the inner loop, which looks for the closing brace of an
\* interpolation; closed is set when the iteration executes the break
InterpolationStep(result, s) ==
    LET char == At(result, s.i)
        str == IF s.inTemplate THEN s.inString
               ELSE IF ~s.inString /\ char \in Quotes THEN TRUE
               ELSE IF s.inString /\ char = s.stringChar THEN FALSE
               ELSE s.inString
        strChar == IF ~s.inTemplate /\ ~s.inString /\ char \in Quotes
                   THEN char ELSE s.stringChar
        tpl == IF ~str /\ char = Backtick
               THEN ~s.inTemplate ELSE s.inTemplate
        d == IF ~str /\ ~tpl
             THEN IF char = "{" THEN s.depth + 1
                  ELSE IF char = "}" THEN s.depth - 1
                  ELSE s.depth
             ELSE s.depth
    IN  IF char = "\\" /\ (s.inString \/ s.inTemplate)
        THEN [s EXCEPT !.i = IF s.i + 1 < Len(result)
                             THEN s.i + 2 ELSE s.i + 1]
        ELSE [i |-> IF d = 0 THEN s.i ELSE s.i + 1,
              depth |-> d, inString |-> str, inTemplate |-> tpl,
              stringChar |-> strChar]

\* The variables when the inner loop is left
RECURSIVE InterpolationScan(_, _)
InterpolationScan(result, s) ==
    IF ~(s.i < Len(result) /\ s.depth > 0) THEN s
    ELSE InterpolationScan(result, InterpolationStep(result, s))

\* The outer loop from index i; ReplaceAt is the iteration at a "${" whose
\* inner loop ended in s
RECURSIVE ReplaceFrom(_, _)
ReplaceAt(result, i, s) ==
    IF s.depth = 0
    THEN ReplaceFrom(Substring(result, 0, i) \o Placeholder
                         \o SubstringFrom(result, s.i + 1),
                     i + Len(Placeholder))
    ELSE ReplaceFrom(result, s.i + 1)

ReplaceFrom(result, i) ==
    IF i >= Len(result) THEN result
    ELSE IF At(result, i) = "$" /\ At(result, i + 1) = "{"
    THEN ReplaceAt(result, i,
                   InterpolationScan(result,
                       [i |-> i + 2, depth |-> 1, inString |-> FALSE,
                        inTemplate |-> FALSE, stringChar |-> ""]))
    ELSE ReplaceFrom(result, i + 1)

replaceInterpolationsWithPlaceholders(h) == ReplaceFrom(h, 0)

-----------------------------------------------------------------------------
(* extractOuterTags and findMatchingBrace                                  *)

RECURSIVE MatchingBraceFrom(_, _, _)
MatchingBraceFrom(text, i, depth) ==
    IF ~(i < Len(text) /\ depth > 0) THEN -1
    ELSE IF At(text, i) = "{" THEN MatchingBraceFrom(text, i + 1, depth + 1)
    ELSE IF At(text, i) = "}"
    THEN IF depth - 1 = 0 THEN i
         ELSE MatchingBraceFrom(text, i + 1, depth - 1)
    ELSE MatchingBraceFrom(text, i + 1, depth)

findMatchingBrace(text, startPos) == MatchingBraceFrom(text, startPos + 1, 1)

RECURSIVE TrimStart(_)
TrimStart(s) ==
    IF Len(s) > 0 /\ s[1] \in WhiteSpace THEN TrimStart(Tail(s)) ELSE s

RECURSIVE TrimEnd(_)
TrimEnd(s) ==
    IF Len(s) > 0 /\ s[Len(s)] \in WhiteSpace
    THEN TrimEnd(SubSeq(s, 1, Len(s) - 1)) ELSE s

Trim(s) == TrimEnd(TrimStart(s))

\* nestedTemplateRegex of extractOuterTags anchored at p,
\* /(\b[a-zA-Z_$][a-zA-Z0-9_$]*\s*\/\*\s*html\s*\*\/\s*|html|dom)\s*`/:
\* the index of its backtick, or -1
OuterLeaderBacktickAt(s, p) ==
    BacktickAfter(s, Matched(IdentAnnotationEnd(s, p))
                       \o NameEnds(s, p, << <<"h","t","m","l">>,
                                            <<"d","o","m">> >>, 1))

FirstOuterLeader(s, hits) ==
    IF hits = {} THEN -1 ELSE OuterLeaderBacktickAt(s, Min(hits))

\* nestedTemplateRegex.exec(s), then s.indexOf("`", match.index): -1 if no match
OuterLeaderBacktick(s) ==
    FirstOuterLeader(s, {p \in 0..(Len(s) - 1) :
                            OuterLeaderBacktickAt(s, p) # -1})

\* The match of openTagRegex whose name ends at e and whose ">" is at g
OpenTag(s, e, g) ==
    IF g = -1 THEN NoMatch
    ELSE [index |-> 0, full |-> Substring(s, 0, g + 1),
          name |-> Substring(s, 1, e)]

\* openTagRegex = /^<([a-zA-Z][a-zA-Z0-9]*)[^>]*>/
OpenTagMatch(s) ==
    IF At(s, 0) # "<" \/ At(s, 1) \notin Letters THEN NoMatch
    ELSE OpenTag(s, RunEnd(s, 2, AlphaNum),
                 IndexOfChar(s, ">", RunEnd(s, 2, AlphaNum)))

\* The return value once the leading interpolations are removed
OuterStructure(openMatch) ==
    IF openMatch.index = -1
    THEN <<"<","s","p","a","n",">","<","/","s","p","a","n",">">>
    ELSE IF EndsWith(openMatch.full, <<"/", ">">>)
    THEN openMatch.full
    ELSE <<"<">> \o openMatch.name \o <<">", "<", "/">>
             \o openMatch.name \o <<">">>

\* The content of the template nestedTemplateRegex finds in an interpolation
\* whose backtick is at templateStart, or null
OuterTemplateContent(interpolationContent, templateStart) ==
    IF templateStart = -1 THEN Null
    ELSE extractTemplateContent(interpolationContent, templateStart + 1)

\* extractOuterTags from the while loop on, on the trimmed text; OuterTagsAt
\* is one iteration of the loop, endBrace being the matching brace found
RECURSIVE OuterTagsOf(_)
OuterTagsIn(cleanedForAnalysis, endBrace, templateContent) ==
    IF templateContent # Null /\ templateContent # <<>>
    THEN OuterTagsOf(Trim(templateContent))
    ELSE OuterTagsOf(Trim(SubstringFrom(cleanedForAnalysis, endBrace + 1)))

OuterTagsAt(cleanedForAnalysis, endBrace, interpolationContent) ==
    OuterTagsIn(cleanedForAnalysis, endBrace,
                OuterTemplateContent(interpolationContent,
                    OuterLeaderBacktick(interpolationContent)))

OuterTagsWhile(cleanedForAnalysis, endBrace) ==
    IF StartsWith(cleanedForAnalysis, <<"$", "{">>) /\ endBrace # -1
    THEN OuterTagsAt(cleanedForAnalysis, endBrace,
                     Substring(cleanedForAnalysis, 2, endBrace))
    ELSE OuterStructure(OpenTagMatch(cleanedForAnalysis))

OuterTagsOf(cleanedForAnalysis) ==
    OuterTagsWhile(cleanedForAnalysis, findMatchingBrace(cleanedForAnalysis, 1))

extractOuterTags(h) == OuterTagsOf(Trim(h))

-----------------------------------------------------------------------------
(* validateHTML and updateDiagnostics                                      *)

maxIterations == 20

\* "Find all nested templates": the nestedTemplates array, from lastIndex =
\* from on; NestedTemplate is the entry pushed for a match
NestedTemplate(off, startPos, templateContent) ==
    IF templateContent # Null
    THEN << [content |-> templateContent,
             offset |-> off + startPos + 1,
             outerStructure |-> extractOuterTags(templateContent)] >>
    ELSE <<>>

RECURSIVE NestedTemplatesFrom(_, _, _)
NestedTemplatesAt(h, off, m) ==
    IF m.index = -1 THEN <<>>
    ELSE NestedTemplate(off, m.end - 1, extractTemplateContent(h, m.end))
             \o NestedTemplatesFrom(h, off, m.end)

NestedTemplatesFrom(h, off, from) ==
    NestedTemplatesAt(h, off, LeaderExec(h, from, tagPatterns, TRUE))

\* templateReplacements.get(c): the outerStructure set last for content c
HasReplacement(nested, c) == \E k \in 1..Len(nested) : nested[k].content = c

ReplacementOf(nested, c) ==
    LET ks == {k \in 1..Len(nested) : nested[k].content = c}
    IN  nested[CHOOSE k \in ks : \A j \in ks : j <= k].outerStructure

\* nestedRegex anchored at p: group 1, ([\s\S]*?), then a backtick.
\* The lazy group ends at the first backtick at or after the end of group 1.
LazyMatch(s, p, e, tick) ==
    [index |-> p, end |-> tick + 1, content |-> Substring(s, e, tick)]

LazyMatchAfter(s, p, ends, ok) ==
    IF ok = {} THEN NoMatch
    ELSE LazyMatch(s, p, ends[Min(ok)],
                   IndexOfChar(s, Backtick, ends[Min(ok)]))

LazyMatchOf(s, p, ends) ==
    LazyMatchAfter(s, p, ends,
        {k \in 1..Len(ends) : IndexOfChar(s, Backtick, ends[k]) # -1})

LazyLeaderMatchAt(s, p) ==
    LazyMatchOf(s, p, LeaderEnds(s, p, tagPatterns, TRUE))

FirstLazyLeader(s, hits) ==
    IF hits = {} THEN NoMatch ELSE LazyLeaderMatchAt(s, Min(hits))

LazyLeaderExec(s, from) ==
    FirstLazyLeader(s, {p \in from..(Len(s) - 1) :
                           LazyLeaderMatchAt(s, p).index # -1})

\* cleanedHtml.replace(nestedRegex, callback) from index from on:
\* the new text and whether the callback replaced anything
Replaced(before, rest, made) ==
    [text |-> before \o rest.text, made |-> made \/ rest.made]

RECURSIVE ReplacePass(_, _, _)
ReplaceMatch(s, from, nested, m) ==
    IF m.index = -1
    THEN [text |-> SubstringFrom(s, from), made |-> FALSE]
    ELSE IF HasReplacement(nested, m.content)
    THEN Replaced(Substring(s, from, m.index)
                      \o ReplacementOf(nested, m.content),
                  ReplacePass(s, m.end, nested), TRUE)
    ELSE Replaced(Substring(s, from, m.end),
                  ReplacePass(s, m.end, nested), FALSE)

ReplacePass(s, from, nested) ==
    ReplaceMatch(s, from, nested, LazyLeaderExec(s, from))

\* while (replacementsMade && iterations < maxIterations)
RECURSIVE ReplaceNested(_, _, _)
ReplaceAgain(r, nested, passes) ==
    IF r.made THEN ReplaceNested(r.text, nested, passes) ELSE r.text

ReplaceNested(cleaned, nested, passes) ==
    IF passes >= maxIterations THEN cleaned
    ELSE ReplaceAgain(ReplacePass(cleaned, 0, nested), nested, passes + 1)

Includes(s, p) == \E k \in 0..(Len(s) - Len(p)) : StartsWithAt(s, p, k)

\* "Replace remaining interpolations with placeholders"
CleanedInterpolations(replaced) ==
    IF Includes(replaced, <<"$", "{">>)
    THEN replaceInterpolationsWithPlaceholders(replaced)
    ELSE replaced

\* "Prepare cleaned HTML for parent validation"
CleanedHtml(h, nested) ==
    CleanedInterpolations(IF Len(nested) > 0 THEN ReplaceNested(h, nested, 0)
                          ELSE h)

\* The diagnostics two consecutive calls push, and the calls made
Then(r1, r2) ==
    [diagnostics |-> r1.diagnostics \o r2.diagnostics,
     validated |-> r1.validated \o r2.validated]

NoRun == [diagnostics |-> <<>>, validated |-> <<>>]

\* validateHTML(h, off, document, diagnostics): the diagnostics the call
\* pushes on to the array, in order, and the offset argument of the call and
\* of every call made by it, in call order
RECURSIVE validateHTML(_, _, _)
RECURSIVE ValidateNested(_, _, _)
\* "Validate each nested template independently", from the k-th on
ValidateNested(nested, k, docText) ==
    IF k > Len(nested) THEN NoRun
    ELSE Then(IF ~isInsideComment(docText, nested[k].offset)
              THEN validateHTML(nested[k].content, nested[k].offset, docText)
              ELSE NoRun,
              ValidateNested(nested, k + 1, docText))

\* validateHTML once the nestedTemplates array is built
ValidateWith(h, off, docText, nested) ==
    Then([diagnostics |-> <<>>, validated |-> <<off>>],
         Then(ValidateNested(nested, 1, docText),
              [diagnostics |->
                   TagLoop(docText, off, CleanedHtml(h, nested), 0,
                           [stack |-> <<>>, diagnostics |-> <<>>]),
               validated |-> <<>>]))

validateHTML(h, off, docText) ==
    ValidateWith(h, off, docText, NestedTemplatesFrom(h, off, 0))

\* The body of the leader-match loop of updateDiagnostics for a match whose
\* backtick is at startPos
UpdateTemplate(text, startPos, templateContent) ==
    IF ~isInsideComment(text, startPos) /\ templateContent # Null
    THEN validateHTML(templateContent, startPos + 1, text)
    ELSE NoRun

\* The leader-match loop of updateDiagnostics from lastIndex = from
RECURSIVE UpdateFrom(_, _)
\* (mutant) the loop ends at the first candidate that is not closed
UpdateAt_StopAtUnclosed(text, m) ==
    IF m.index = -1 \/ extractTemplateContent(text, m.end) = Null THEN NoRun
    ELSE Then(UpdateTemplate(text, m.end - 1,
                             extractTemplateContent(text, m.end)),
              UpdateFrom(text, m.end))

UpdateAt(text, m) ==
    IF m.index = -1 THEN NoRun
    ELSE Then(UpdateTemplate(text, m.end - 1,
                             extractTemplateContent(text, m.end)),
              UpdateFrom(text, m.end))

UpdateFrom(text, from) ==
    UpdateAt(text, LeaderExec(text, from, tagPatterns, TRUE))

\* updateDiagnostics on a document of a supported language: the array given
\* to diagnosticCollection.set, and the validateHTML calls made
updateDiagnostics(text) == UpdateFrom(text, 0)

-----------------------------------------------------------------------------
(* Parts of the state a specification leaves alone                         *)

\* No folding request is running
NoFolding ==
    /\ foldingRanges = <<>>
    /\ processedPositions = {}
    /\ filteredRanges = Null
    /\ isCancellationRequested = FALSE

\* The workspace holds the document under work only
\* No updateDiagnostics call has been made
NoDocument == [uri |-> "", languageId |-> "", text |-> <<>>]

NoWorkspace ==
    /\ documents = <<>>
    /\ diagnosticCollection = <<>>
    /\ document = NoDocument

NoCall ==
    /\ frames = <<>>
    /\ nestedIndex = 0
    /\ iterations = 0
    /\ replacementsMade = FALSE

NoConfiguration ==
    /\ foldingStrategy = "auto"
    /\ originalFoldingStrategy = Undefined
    /\ pendingUpdates = <<>>
    /\ notifications = 0
    /\ activations = 0
    /\ commands = <<>>
    /\ settingBefore = "auto"

-----------------------------------------------------------------------------
(* The tag validator on one literal, one loop iteration at a time          *)

MaxHtmlToks == 4

\* The document that holds the literal text body after the first leader
LiteralDocument(body) == tagPatterns[1] \o <<Backtick>> \o body \o <<Backtick>>

\* Markup of the literal text: <b> </b> <B> </B> <br> </br> <b/>
HtmlToks ==
    { <<"<","b",">">>, <<"<","/","b",">">>, <<"<","B",">">>,
      <<"<","/","B",">">>, <<"<","b","r",">">>, <<"<","/","b","r",">">>,
      <<"<","b","/",">">> }

\* The texts of at most k of the pieces toks
RECURSIVE TextsOf(_, _)
TextsOf(toks, k) ==
    IF k = 0 THEN { <<>> }
    ELSE TextsOf(toks, k - 1)
           \cup { t \o tok : t \in TextsOf(toks, k - 1), tok \in toks }

\* validateHTML is about to be called for the literal text doc of the
\* document LiteralDocument(doc)
InitHTML ==
    /\ doc \in TextsOf(HtmlToks, MaxHtmlToks)
    /\ edits = 0
    /\ pc = "call"
    /\ html = <<>>
    /\ offset = 0
    /\ lastIndex = 0
    /\ stack = <<>>
    /\ diagnostics = <<>>
    /\ validated = <<>>
    /\ content = Null
    /\ NoFolding
    /\ NoWorkspace
    /\ NoCall
    /\ NoConfiguration

\* validateHTML(doc, offset, document, []) up to the start of the tag loop
ValidateBegin ==
    /\ pc = "call"
    /\ pc' = "scan"
    /\ html' = CleanedHtml(doc, NestedTemplatesFrom(doc,
                                   Len(tagPatterns[1]) + 1, 0))
    /\ offset' = Len(tagPatterns[1]) + 1
    /\ lastIndex' = 0
    /\ stack' = <<>>
    /\ diagnostics' = <<>>
    /\ validated' = <<Len(tagPatterns[1]) + 1>>
    /\ UNCHANGED <<doc, edits, content,
                   foldVars, storeVars, callVars,
                   configVars>>

\* One iteration of while ((match = tagRegex.exec(cleanedHtml)) !== null)
ValidateTag ==
    /\ pc = "scan"
    /\ LET m == TagExec(html, lastIndex)
       IN  /\ m.index # -1
           /\ LET st == ProcessTag(LiteralDocument(doc), offset,
                                   [stack |-> stack,
                                    diagnostics |-> diagnostics], m)
              IN  /\ stack' = st.stack
                  /\ diagnostics' = st.diagnostics
           /\ lastIndex' = m.index + Len(m.full)
    /\ UNCHANGED <<doc, edits, pc, html, offset, validated, content,
                   foldVars, storeVars, callVars,
                   configVars>>

\* tagRegex.exec returns null: the loop over the unclosed tags, and return
ValidateEnd ==
    /\ pc = "scan"
    /\ TagExec(html, lastIndex).index = -1
    /\ diagnostics' = diagnostics
           \o UnclosedDiagnostics(LiteralDocument(doc), stack)
    /\ pc' = "done"
    /\ UNCHANGED <<doc, edits, html, offset, lastIndex, stack, validated,
                   content,
                   foldVars, storeVars, callVars,
                   configVars>>

NextHTML == ValidateBegin \/ ValidateTag \/ ValidateEnd

SpecHTML == InitHTML /\ [][NextHTML]_vars

-----------------------------------------------------------------------------
(* updateDiagnostics on every change of a document                         *)

MaxDocToks == 5

\* What the user types: html` ${html` `} ` </b> <b> ${x}
DocToks ==
    { tagPatterns[1] \o <<Backtick>>,
      <<"$", "{">> \o tagPatterns[1] \o <<Backtick>>,
      <<Backtick, "}">>,
      <<Backtick>>,
      <<"<", "/", "b", ">">>,
      <<"<", "b", ">">>,
      <<"$", "{", "x", "}">> }

\* An empty document of a supported language is open
InitDoc ==
    /\ doc = <<>>
    /\ edits = 0
    /\ pc = "open"
    /\ html = <<>>
    /\ offset = 0
    /\ lastIndex = 0
    /\ stack = <<>>
    /\ diagnostics = <<>>
    /\ validated = <<>>
    /\ content = Null
    /\ NoFolding
    /\ NoWorkspace
    /\ NoCall
    /\ NoConfiguration

\* this.diagnosticCollection.set(document.uri, diagnostics)
DiagnosticsSet(run) ==
    /\ diagnostics' = run.diagnostics
    /\ validated' = run.validated

\* onDidChangeTextDocument: the user has typed tok\* onDidChangeTextDocument: the user has typed tok at the end of the document;
\* updateDiagnostics sets the document's diagnostics
OnDidChangeTextDocument ==
    /\ pc = "open"
    /\ edits < MaxDocToks
    /\ \E tok \in DocToks :
          /\ doc' = doc \o tok
          /\ DiagnosticsSet(updateDiagnostics(doc \o tok))
    /\ \E tok \in DocToks :
          /\ doc' = doc \o tok
          /\ diagnostics' = updateDiagnostics(doc \o tok).diagnostics
          /\ validated' = updateDiagnostics(doc \o tok).validated
    /\ edits' = edits + 1
    /\ UNCHANGED <<pc, html, offset, lastIndex, stack, content,
                   foldVars, storeVars, callVars,
                   configVars>>

NextDoc == OnDidChangeTextDocument

SpecDoc == InitDoc /\ [][NextDoc]_vars

-----------------------------------------------------------------------------
(* The scanners on the text that follows an opening backtick               *)

MaxScanToks == 6

\* Pieces of the text after the first leader's backtick:
\* ` ${ } ' " '\\' \`
ScanToks ==
    { <<Backtick>>, <<"$", "{">>, <<"}">>, <<"'">>, <<"\"">>,
      <<"'", "\\", "\\", "'">>, <<"\\", Backtick>> }

\* The document text: the first leader, its backtick and the text after it
ScanDocument(body) == tagPatterns[1] \o <<Backtick>> \o body

\* extractTemplateContent is about to be called at the first leader's
\* backtick of the document ScanDocument(doc)
InitScan ==
    /\ doc \in TextsOf(ScanToks, MaxScanToks)
    /\ edits = 0
    /\ pc = "call"
    /\ html = <<>>
    /\ offset = Len(tagPatterns[1]) + 1
    /\ lastIndex = 0
    /\ stack = <<>>
    /\ diagnostics = <<>>
    /\ validated = <<>>
    /\ content = Null
    /\ NoFolding
    /\ NoWorkspace
    /\ NoCall
    /\ NoConfiguration

\* const templateContent = this.extractTemplateContent(text, startPos + 1)
ExtractContent ==
    /\ pc = "call"
    /\ content' = extractTemplateContent(ScanDocument(doc), offset)
    /\ pc' = "extracted"
    /\ UNCHANGED <<doc, edits, html, offset, lastIndex, stack, diagnostics,
                   validated,
                   foldVars, storeVars, callVars,
                   configVars>>

\* cleanedHtml = this.replaceInterpolationsWithPlaceholders(cleanedHtml)
\* on the extracted content
ReplaceInterpolations ==
    /\ pc = "extracted"
    /\ content # Null
    /\ html' = replaceInterpolationsWithPlaceholders(content)
    /\ pc' = "replaced"
    /\ UNCHANGED <<doc, edits, offset, lastIndex, stack, diagnostics,
                   validated, content,
                   foldVars, storeVars, callVars,
                   configVars>>

NextScan == ExtractContent \/ ReplaceInterpolations

SpecScan == InitScan /\ [][NextScan]_vars

-----------------------------------------------------------------------------
(* updateDiagnostics when a document is opened                             *)

MaxBodyToks == 2

\* Markup of a literal's text: <b> </b>
BodyToks == { <<"<", "b", ">">>, <<"<", "/", "b", ">">> }

\* The texts of at most k pieces of markup
RECURSIVE BodiesOf(_)
BodiesOf(k) ==
    IF k = 0 THEN { <<>> }
    ELSE BodiesOf(k - 1)
           \cup { b \o tok : b \in BodiesOf(k - 1), tok \in BodyToks }

\* A literal of the second configured leader in an interpolation
NestedLiteral(body, closed) ==
    <<"$", "{">> \o tagPatterns[2] \o <<Backtick>> \o body
        \o (IF closed THEN <<Backtick>> ELSE <<>>) \o <<"}">>

\* A document that is one literal of the first configured leader, with or
\* without a nested literal in its text, each of the two closed or not
OpenDocument(before, nested, body, nestedClosed, after, closed) ==
    tagPatterns[1] \o <<Backtick>> \o before
        \o (IF nested THEN NestedLiteral(body, nestedClosed) ELSE <<>>)
        \o after \o (IF closed THEN <<Backtick>> ELSE <<>>)

OpenDocuments ==
    { OpenDocument(before, nested, body, nestedClosed, after, closed) :
        before \in BodiesOf(MaxBodyToks), body \in BodiesOf(MaxBodyToks),
        after \in BodiesOf(MaxBodyToks),
        nested \in BOOLEAN, nestedClosed \in BOOLEAN, closed \in BOOLEAN }

\* A document of a supported language is about to be opened
InitOpen ==
    /\ doc \in OpenDocuments
    /\ edits = 0
    /\ pc = "closed"
    /\ html = <<>>
    /\ offset = 0
    /\ lastIndex = 0
    /\ stack = <<>>
    /\ diagnostics = <<>>
    /\ validated = <<>>
    /\ content = Null
    /\ NoFolding
    /\ NoWorkspace
    /\ NoCall
    /\ NoConfiguration

\* onDidOpenTextDocument: updateDiagnostics sets the document's diagnostics
OnDidOpenTextDocument ==
    /\ pc = "closed"
    /\ pc' = "open"
    /\ DiagnosticsSet(updateDiagnostics(doc))
    /\ UNCHANGED <<doc, edits, html, offset, lastIndex, stack, content,
                   foldVars, storeVars, callVars,
                   configVars>>

NextOpen == OnDidOpenTextDocument

SpecOpen == InitOpen /\ [][NextOpen]_vars

-----------------------------------------------------------------------------
(* updateDiagnostics on a document that ends with a commented-out literal  *)

MaxPreludeToks == 5

\* Pieces of the source text before the comment: html` ${html` `} ` '
PreludeToks ==
    { tagPatterns[1] \o <<Backtick>>,
      <<"$", "{">> \o tagPatterns[1] \o <<Backtick>>,
      <<Backtick, "}">>,
      <<Backtick>>,
      <<"'">> }

\* The texts of at most k pieces
RECURSIVE PreludesOf(_)
PreludesOf(k) ==
    IF k = 0 THEN { <<>> }
    ELSE PreludesOf(k - 1)
           \cup { p \o tok : p \in PreludesOf(k - 1), tok \in PreludeToks }

\* /*html`</b>`*/
CommentedLiteral ==
    <<"/", "*">> \o tagPatterns[1] \o <<Backtick, "<", "/", "b", ">", Backtick>>
        \o <<"*", "/">>

CommentDocuments ==
    { prelude \o CommentedLiteral : prelude \in PreludesOf(MaxPreludeToks) }

InitComment ==
    /\ doc \in CommentDocuments
    /\ edits = 0
    /\ pc = "closed"
    /\ html = <<>>
    /\ offset = 0
    /\ lastIndex = 0
    /\ stack = <<>>
    /\ diagnostics = <<>>
    /\ validated = <<>>
    /\ content = Null
    /\ NoFolding
    /\ NoWorkspace
    /\ NoCall
    /\ NoConfiguration

SpecComment == InitComment /\ [][NextOpen]_vars

-----------------------------------------------------------------------------
(* foldingProvider.ts: provideFoldingRanges                                *)

\* findClosingBacktick: one turn of the while loop. found is the index the
\* function returns from inside the loop, -1 while it has not returned
FindAfterString(text, r, char, inString, stringChar) ==
    IF ~inString /\ char = Backtick
    THEN [i |-> r.i + 1, depth |-> r.depth - 1, inString |-> inString,
          stringChar |-> stringChar,
          found |-> IF r.depth - 1 = 0 THEN r.i ELSE -1]
    ELSE IF ~inString /\ char = "$" /\ r.i + 1 < Len(text)
              /\ At(text, r.i + 1) = "{"
    THEN [i |-> r.i + 2, depth |-> r.depth + 1, inString |-> inString,
          stringChar |-> stringChar, found |-> -1]
    ELSE IF ~inString /\ char = "}" /\ r.depth > 1
    THEN [i |-> r.i + 1, depth |-> r.depth - 1, inString |-> inString,
          stringChar |-> stringChar, found |-> -1]
    ELSE [i |-> r.i + 1, depth |-> r.depth, inString |-> inString,
          stringChar |-> stringChar, found |-> -1]

FindStep(text, r) ==
    IF r.i > 0 /\ At(text, r.i - 1) = "\\"
    THEN [r EXCEPT !.i = r.i + 1]
    ELSE IF ~r.inString /\ At(text, r.i) \in Quotes
    THEN FindAfterString(text, r, At(text, r.i), TRUE, At(text, r.i))
    ELSE IF r.inString /\ At(text, r.i) = r.stringChar
    THEN FindAfterString(text, r, At(text, r.i), FALSE, "")
    ELSE FindAfterString(text, r, At(text, r.i), r.inString, r.stringChar)

RECURSIVE FindRun(_, _)
FindRun(text, r) ==
    IF r.found # -1 THEN r.found
    ELSE IF r.i < Len(text) /\ r.depth > 0 THEN FindRun(text, FindStep(text, r))
    ELSE -1

findClosingBacktick(text, startPos) ==
    FindRun(text, [i |-> startPos, depth |-> 1, inString |-> FALSE,
                   stringChar |-> "", found |-> -1])

\* new vscode.FoldingRange(startLine, endLine)
FoldingRange(startLine, endLine) == [start |-> startLine, end |-> endLine]

\* The body of the while loop after the processedPositions test: the range
\* pushed for the match m, if any
FoldRangeTo(text, startLine, endPos) ==
    IF endPos = -1 THEN <<>>
    ELSE IF PositionAt(text, endPos).line - startLine >= 2
    THEN <<FoldingRange(startLine, PositionAt(text, endPos).line)>>
    ELSE <<>>

FoldRangeOf(text, m) ==
    FoldRangeTo(text, PositionAt(text, m.index).line,
                findClosingBacktick(text, m.end))

Contains_OrEqual(otherRange, range) ==
    /\ otherRange.start <= range.start
    /\ otherRange.end >= range.end

\* otherRange contains range and is not identical to it
Contains(otherRange, range) ==
    /\ otherRange.start <= range.start
    /\ otherRange.end >= range.end
    /\ (otherRange.start < range.start \/ otherRange.end > range.end)

\* foldingRanges.filter(...)
Kept(ranges, index) ==
    ~ \E otherIndex \in 1..Len(ranges) :
          index # otherIndex /\ Contains(ranges[otherIndex], ranges[index])

RECURSIVE FilterFrom(_, _)
FilterFrom(ranges, index) ==
    IF index > Len(ranges) THEN <<>>
    ELSE (IF Kept(ranges, index) THEN <<ranges[index]>> ELSE <<>>)
             \o FilterFrom(ranges, index + 1)

FilterRanges(ranges) == FilterFrom(ranges, 1)

\* What provideFoldingRanges returns when the loop is left: at a read of
\* the token that finds it cancelled, or when regex.exec finds no match
FoldResult_PartialOnCancel(cancelled, ranges) == FilterRanges(ranges)

\* return [] at a cancelled read, return filteredRanges otherwise
FoldResult(cancelled, ranges) ==
    IF cancelled THEN <<>> ELSE FilterRanges(ranges)

\* The fold regex: the leader pattern without the bare annotation
FoldExec(text, from) == LeaderExec(text, from, tagPatterns, FALSE)

MaxFoldToks == 4

\* Pieces of source text: html`  ${html`\n  \n`}  \n  `  '
FoldToks ==
    { tagPatterns[1] \o <<Backtick>>,
      <<"$", "{">> \o tagPatterns[1] \o <<Backtick, "\n">>,
      <<"\n", Backtick, "}">>,
      <<"\n">>,
      <<Backtick>>,
      <<"'">> }

RECURSIVE FoldDocumentsOf(_)
FoldDocumentsOf(k) ==
    IF k = 0 THEN { <<>> }
    ELSE FoldDocumentsOf(k - 1)
           \cup { d \o tok : d \in FoldDocumentsOf(k - 1), tok \in FoldToks }

InitFold ==
    /\ doc \in FoldDocumentsOf(MaxFoldToks)
    /\ edits = 0
    /\ pc = "request"
    /\ html = <<>>
    /\ offset = 0
    /\ lastIndex = 0
    /\ stack = <<>>
    /\ diagnostics = <<>>
    /\ validated = <<>>
    /\ content = Null
    /\ NoFolding
    /\ NoWorkspace
    /\ NoCall
    /\ NoConfiguration

\* provideFoldingRanges is called: the locals before the loop
ProvideFoldingRanges ==
    /\ pc = "request"
    /\ pc' = "loop"
    /\ foldingRanges' = <<>>
    /\ processedPositions' = {}
    /\ lastIndex' = 0
    /\ UNCHANGED <<doc, edits, html, offset, stack, diagnostics, validated,
                   content, filteredRanges, isCancellationRequested,
                   storeVars, callVars,
                   configVars>>

\* One iteration of while ((match = regex.exec(text)) !== null)
FoldIterationAt(m) ==
    /\ m.index # -1
    /\ IF isCancellationRequested
       THEN /\ filteredRanges' = FoldResult(TRUE, foldingRanges)
            /\ pc' = "returned"
            /\ UNCHANGED <<foldingRanges, processedPositions>>
       ELSE /\ processedPositions' = processedPositions \cup {m.end}
            /\ foldingRanges' =
                   IF m.end \in processedPositions THEN foldingRanges
                   ELSE foldingRanges \o FoldRangeOf(doc, m)
            /\ UNCHANGED <<filteredRanges, pc>>
    /\ lastIndex' = m.end

FoldIteration ==
    /\ pc = "loop"
    /\ FoldIterationAt(FoldExec(doc, lastIndex))
    /\ UNCHANGED <<doc, edits, html, offset, stack, diagnostics, validated,
                   content, isCancellationRequested, storeVars, callVars,
                   configVars>>

\* regex.exec finds no further match: the filter and the return
FoldReturn ==
    /\ pc = "loop"
    /\ FoldExec(doc, lastIndex).index = -1
    /\ filteredRanges' = FoldResult(FALSE, foldingRanges)
    /\ pc' = "returned"
    /\ UNCHANGED <<doc, edits, html, offset, lastIndex, stack, diagnostics,
                   validated, content, foldingRanges, processedPositions,
                   isCancellationRequested, storeVars, callVars,
                   configVars>>

\* The caller cancels the request
Cancel ==
    /\ pc \in {"request", "loop"}
    /\ ~isCancellationRequested
    /\ isCancellationRequested' = TRUE
    /\ UNCHANGED <<doc, edits, pc, html, offset, lastIndex, stack,
                   diagnostics, validated, content, foldingRanges,
                   processedPositions, filteredRanges, storeVars, callVars,
                   configVars>>

NextFold == ProvideFoldingRanges \/ FoldIteration \/ FoldReturn \/ Cancel

SpecFold == InitFold /\ [][NextFold]_vars

-----------------------------------------------------------------------------
(* provideFoldingRanges on one literal under each kind of leader           *)

MaxFoldLines == 3

\* x/*html*/ and the bare annotation /*html*/
Annotation == <<"/", "*">> \o tagPatterns[1] \o <<"*", "/">>

FoldLeaders == { tagPatterns[1], <<"x">> \o Annotation, Annotation }

RECURSIVE NewLines(_)
NewLines(n) == IF n = 0 THEN <<>> ELSE <<"\n">> \o NewLines(n - 1)

\* A literal of n + 1 lines under the leader, after the text before, in a
\* block comment or not
LeaderDocument(before, leader, n, commented) ==
    before \o (IF commented THEN <<"/", "*">> ELSE <<>>)
           \o leader \o <<Backtick>> \o NewLines(n) \o <<Backtick>>
           \o (IF commented THEN <<"*", "/">> ELSE <<>>)

LeaderDocuments ==
    { LeaderDocument(before, leader, n, commented) :
          before \in { <<>>, <<"\n">>, <<";">> }, leader \in FoldLeaders,
          n \in 0..MaxFoldLines, commented \in BOOLEAN }

InitLeader ==
    /\ doc \in LeaderDocuments
    /\ edits = 0
    /\ pc = "request"
    /\ html = <<>>
    /\ offset = 0
    /\ lastIndex = 0
    /\ stack = <<>>
    /\ diagnostics = <<>>
    /\ validated = <<>>
    /\ content = Null
    /\ NoFolding
    /\ NoWorkspace
    /\ NoCall
    /\ NoConfiguration

SpecLeader == InitLeader /\ [][NextFold]_vars

-----------------------------------------------------------------------------
(* updateDiagnostics on a literal whose tags carry attributes              *)

MaxAttrToks == 3

\* Markup: <b>  <b c>  </b>  <a b>
AttrToks ==
    { <<"<", "b", ">">>, <<"<", "b", " ", "c", ">">>, <<"<", "/", "b", ">">>,
      <<"<", "a", " ", "b", ">">> }

RECURSIVE AttrBodies(_)
AttrBodies(k) ==
    IF k = 0 THEN { <<>> }
    ELSE AttrBodies(k - 1)
           \cup { b \o tok : b \in AttrBodies(k - 1), tok \in AttrToks }

InitAttr ==
    /\ doc \in { LiteralDocument(body) : body \in AttrBodies(MaxAttrToks) }
    /\ edits = 0
    /\ pc = "closed"
    /\ html = <<>>
    /\ offset = 0
    /\ lastIndex = 0
    /\ stack = <<>>
    /\ diagnostics = <<>>
    /\ validated = <<>>
    /\ content = Null
    /\ NoFolding
    /\ NoWorkspace
    /\ NoCall
    /\ NoConfiguration

SpecAttr == InitAttr /\ [][NextOpen]_vars

-----------------------------------------------------------------------------
(* extractOuterTags, and the tag validator on the fragment it returns      *)

MaxOuterToks == 3

\* Pieces of a nested literal's content:
\* <b>  </b>  <br>  <b/>  a space  ${x}  ${dom`<i>`}
OuterToks ==
    { <<"<", "b", ">">>, <<"<", "/", "b", ">">>, <<"<", "b", "r", ">">>,
      <<"<", "b", "/", ">">>, <<" ">>, <<"$", "{", "x", "}">>,
      <<"$", "{">> \o tagPatterns[2] \o <<Backtick, "<", "i", ">", Backtick, "}">> }

RECURSIVE OuterContents(_)
OuterContents(k) ==
    IF k = 0 THEN { <<>> }
    ELSE OuterContents(k - 1)
           \cup { c \o tok : c \in OuterContents(k - 1), tok \in OuterToks }

InitOuter ==
    /\ doc = <<>>
    /\ edits = 0
    /\ pc = "extracted"
    /\ html = <<>>
    /\ offset = 0
    /\ lastIndex = 0
    /\ stack = <<>>
    /\ diagnostics = <<>>
    /\ validated = <<>>
    /\ content \in OuterContents(MaxOuterToks)
    /\ NoFolding
    /\ NoWorkspace
    /\ NoCall
    /\ NoConfiguration

\* const outerStructure = this.extractOuterTags(templateContent)
ExtractOuterTags ==
    /\ pc = "extracted"
    /\ html' = extractOuterTags(content)
    /\ pc' = "outer"
    /\ UNCHANGED <<doc, edits, offset, lastIndex, stack, diagnostics,
                   validated, content, foldVars, storeVars, callVars,
                   configVars>>

\* validateHTML on the fragment alone
ValidateOuter ==
    /\ pc = "outer"
    /\ DiagnosticsSet(validateHTML(html, 0, html))
    /\ pc' = "scanned"
    /\ UNCHANGED <<doc, edits, html, offset, lastIndex, stack, content,
                   foldVars, storeVars, callVars,
                   configVars>>

NextOuter == ExtractOuterTags \/ ValidateOuter

SpecOuter == InitOuter /\ [][NextOuter]_vars

-----------------------------------------------------------------------------
(* updateDiagnostics and validateHTML, one loop iteration and one call at  *)
(* a time                                                                  *)

MaxCallDepth == 2

\* Literal contents with literals nested at most k levels deep:
\* ${html`...`} with nothing or <b> after it; the innermost content may
\* also be an escaped quote
CallAround == { <<>>, <<"<", "b", ">">> }

RECURSIVE CallContents(_)
CallContents(k) ==
    IF k = 0 THEN CallAround \cup { <<"\\", "'">> }
    ELSE CallContents(k - 1)
           \cup { <<"$", "{">> \o tagPatterns[1] \o <<Backtick>>
                      \o x \o <<Backtick, "}">> \o after :
                      x \in CallContents(k - 1), after \in CallAround }

InitCall ==
    /\ doc \in { LiteralDocument(c) : c \in CallContents(MaxCallDepth) }
    /\ edits = 0
    /\ pc = "update"
    /\ html = <<>>
    /\ offset = 0
    /\ lastIndex = 0
    /\ stack = <<>>
    /\ diagnostics = <<>>
    /\ validated = <<>>
    /\ content = Null
    /\ NoFolding
    /\ NoWorkspace
    /\ NoCall
    /\ NoConfiguration

\* The nestedTemplates array of the running validateHTML call
nestedTemplates == NestedTemplatesFrom(content, offset, 0)

\* One iteration of the leader-match loop of updateDiagnostics: the match
\* is skipped, or validateHTML is called for it
UpdateMatchAt(m, templateContent) ==
    /\ m.index # -1
    /\ lastIndex' = m.end
    /\ IF ~isInsideComment(doc, m.end - 1) /\ templateContent # Null
       THEN /\ content' = templateContent
            /\ offset' = m.end
            /\ validated' = Append(validated, m.end)
            /\ nestedIndex' = 1
            /\ pc' = "nested"
       ELSE UNCHANGED <<content, offset, validated, nestedIndex, pc>>

UpdateMatch ==
    /\ pc = "update"
    /\ UpdateMatchAt(LeaderExec(doc, lastIndex, tagPatterns, TRUE),
                     extractTemplateContent(doc,
                         LeaderExec(doc, lastIndex, tagPatterns, TRUE).end))
    /\ UNCHANGED <<doc, edits, html, stack, diagnostics, foldVars, storeVars,
                   frames, iterations, replacementsMade, configVars>>

\* The leader-match loop ends: diagnosticCollection.set, and the return
UpdateReturn ==
    /\ pc = "update"
    /\ LeaderExec(doc, lastIndex, tagPatterns, TRUE).index = -1
    /\ pc' = "done"
    /\ UNCHANGED <<doc, edits, html, offset, lastIndex, stack, diagnostics,
                   validated, content, foldVars, storeVars, callVars,
                   configVars>>

\* One iteration of "Validate each nested template independently": the
\* recursive call for nested, the caller waiting in frames
ValidateNestedAt(nested) ==
    IF ~isInsideComment(doc, nested.offset)
    THEN /\ frames' = Append(frames, [html |-> content, offset |-> offset,
                                      nestedIndex |-> nestedIndex + 1])
         /\ content' = nested.content
         /\ offset' = nested.offset
         /\ validated' = Append(validated, nested.offset)
         /\ nestedIndex' = 1
    ELSE /\ nestedIndex' = nestedIndex + 1
         /\ UNCHANGED <<frames, content, offset, validated>>

ValidateNestedCall ==
    /\ pc = "nested"
    /\ nestedIndex <= Len(nestedTemplates)
    /\ ValidateNestedAt(nestedTemplates[nestedIndex])
    /\ UNCHANGED <<doc, edits, pc, html, lastIndex, stack, diagnostics,
                   foldVars, storeVars, iterations, replacementsMade,
                   configVars>>

\* "Prepare cleaned HTML for parent validation", up to the while loop
ReplaceBegin ==
    /\ pc = "nested"
    /\ nestedIndex > Len(nestedTemplates)
    /\ html' = content
    /\ replacementsMade' = (Len(nestedTemplates) > 0)
    /\ iterations' = 0
    /\ pc' = "replace"
    /\ UNCHANGED <<doc, edits, offset, lastIndex, stack, diagnostics,
                   validated, content, foldVars, storeVars, frames,
                   nestedIndex, configVars>>

LoopAgain_IgnoreFlag(made, n) == n < maxIterations

\* while (replacementsMade && iterations < maxIterations)
LoopAgain(made, n) == made /\ n < maxIterations

\* One pass of the replacement loop
ReplacePassOnce ==
    /\ pc = "replace"
    /\ LoopAgain(replacementsMade, iterations)
    /\ html' = ReplacePass(html, 0, nestedTemplates).text
    /\ replacementsMade' = ReplacePass(html, 0, nestedTemplates).made
    /\ iterations' = iterations + 1
    /\ UNCHANGED <<doc, edits, pc, offset, lastIndex, stack, diagnostics,
                   validated, content, foldVars, storeVars, frames,
                   nestedIndex, configVars>>

\* The return of validateHTML to the frame that waits for it, or to
\* updateDiagnostics
ReturnTo(waiting) ==
    IF waiting = <<>>
    THEN /\ pc' = "update"
         /\ UNCHANGED <<frames, content, offset, nestedIndex>>
    ELSE /\ pc' = "nested"
         /\ frames' = SubSeq(waiting, 1, Len(waiting) - 1)
         /\ content' = waiting[Len(waiting)].html
         /\ offset' = waiting[Len(waiting)].offset
         /\ nestedIndex' = waiting[Len(waiting)].nestedIndex

\* The rest of validateHTML: the remaining interpolations are replaced, the
\* tags are scanned, the unclosed tags reported, and the call returns
ScanAndReturn ==
    /\ pc = "replace"
    /\ ~LoopAgain(replacementsMade, iterations)
    /\ diagnostics' = diagnostics
           \o TagLoop(doc, offset, CleanedInterpolations(html), 0,
                      [stack |-> <<>>, diagnostics |-> <<>>])
    /\ ReturnTo(frames)
    /\ UNCHANGED <<doc, edits, html, lastIndex, stack, validated, foldVars,
                   storeVars, iterations, replacementsMade, configVars>>

NextCall ==
    \/ UpdateMatch
    \/ UpdateReturn
    \/ ValidateNestedCall
    \/ ReplaceBegin
    \/ ReplacePassOnce
    \/ ScanAndReturn

SpecCall == InitCall /\ [][NextCall]_vars

\* The handler runs on the extension host's thread without being
\* suspended: while it has not returned, it takes its next step.  This is
\* WF_vars(NextCall), a step of NextCall being possible exactly as long as
\* the handler has not returned.
SpecCallFair ==
    SpecCall /\ ([]<>(pc = "done") \/ []<><<NextCall>>_vars)

-----------------------------------------------------------------------------
(* activate and deactivate: the editor.foldingStrategy setting             *)

MaxActivations == 3

\* The global (user) value of editor.foldingStrategy; "unset" is the user
\* settings without the key
Settings == {"unset", "auto", "indentation"}

\* editorConfig.get<string>('foldingStrategy'): the value that is set; for
\* a key that is not set, the default the editor has registered for it or,
\* when the host has none, undefined
DefaultFoldingStrategy == "auto"

Get(setting) ==
    IF setting = "unset" THEN {Undefined, DefaultFoldingStrategy}
    ELSE {setting}

\* editorConfig.update('foldingStrategy', value, Global): the write is
\* pending until its promise resolves; notify tells that the .then
\* callback of activate waits for it
Update(value, notify) ==
    pendingUpdates' = Append(pendingUpdates,
                             [value |-> value, notify |-> notify])

InitConfig ==
    /\ doc = <<>>
    /\ edits = 0
    /\ pc = "inactive"
    /\ html = <<>>
    /\ offset = 0
    /\ lastIndex = 0
    /\ stack = <<>>
    /\ diagnostics = <<>>
    /\ validated = <<>>
    /\ content = Null
    /\ NoFolding
    /\ NoWorkspace
    /\ NoCall
    /\ foldingStrategy \in Settings
    /\ originalFoldingStrategy = Undefined
    /\ pendingUpdates = <<>>
    /\ notifications = 0
    /\ activations = 0
    /\ commands = <<>>
    /\ settingBefore = foldingStrategy

otherVars == <<doc, edits, html, offset, lastIndex, stack, diagnostics,
               validated, content, foldVars, storeVars, callVars>>

\* activate, got being what editorConfig.get returns
ActivateWith(got) ==
    /\ originalFoldingStrategy' = got
    /\ IF got # "indentation"
       THEN Update("indentation", TRUE)
       ELSE UNCHANGED pendingUpdates

Activate ==
    /\ pc \in {"inactive", "deactivated"}
    /\ activations < MaxActivations
    /\ \E got \in Get(foldingStrategy) : ActivateWith(got)
    /\ activations' = activations + 1
    /\ settingBefore' = foldingStrategy
    /\ pc' = "active"
    /\ UNCHANGED <<foldingStrategy, notifications, commands, otherVars>>

\* The oldest pending write reaches the user settings and its promise
\* resolves; after the write of activate the information message is shown
ResolveUpdate ==
    /\ pendingUpdates # <<>>
    /\ foldingStrategy' = Head(pendingUpdates).value
    /\ notifications' = IF Head(pendingUpdates).notify
                        THEN notifications + 1 ELSE notifications
    /\ pendingUpdates' = Tail(pendingUpdates)
    /\ UNCHANGED <<pc, originalFoldingStrategy, activations, settingBefore,
                   commands, otherVars>>

\* deactivate
RestoreOriginal ==
    IF originalFoldingStrategy # Undefined
    THEN Update(originalFoldingStrategy, FALSE)
    ELSE UNCHANGED pendingUpdates

Deactivate ==
    /\ pc = "active"
    /\ RestoreOriginal
    /\ pc' = "deactivated"
    /\ UNCHANGED <<foldingStrategy, originalFoldingStrategy, notifications,
                   activations, settingBefore, commands, otherVars>>

\* The message is closed without 'Reload'
Dismiss ==
    /\ notifications > 0
    /\ notifications' = notifications - 1
    /\ UNCHANGED <<pc, foldingStrategy, originalFoldingStrategy,
                   pendingUpdates, activations, settingBefore, commands,
                   otherVars>>

\* 'Reload' is selected: the callback passes the reload command to
\* executeCommand and returns; deactivate is a later call of the host
SelectReload ==
    /\ notifications > 0
    /\ notifications' = notifications - 1
    /\ commands' = Append(commands, "workbench.action.reloadWindow")
    /\ UNCHANGED <<pc, foldingStrategy, originalFoldingStrategy,
                   pendingUpdates, activations, settingBefore, otherVars>>

NextConfig ==
    \/ Activate
    \/ ResolveUpdate
    \/ Deactivate
    \/ Dismiss
    \/ SelectReload

SpecConfig == InitConfig /\ [][NextConfig]_vars

-----------------------------------------------------------------------------
(* The diagnostic store over the open documents                            *)

SUPPORTED_LANGUAGES ==
    {"javascript", "typescript", "javascriptreact", "typescriptreact"}

\* this.diagnosticCollection.set(document.uri, diagnostics)
StoreSet_Append(store, uri, diags) ==
    [u \in DOMAIN store \cup {uri} |->
        IF u # uri THEN store[u]
        ELSE IF uri \in DOMAIN store THEN store[uri] \o diags ELSE diags]

StoreSet(store, uri, diags) ==
    [u \in DOMAIN store \cup {uri} |-> IF u = uri THEN diags ELSE store[u]]

\* updateDiagnostics(document): the store after the call
UpdateStore(store, d) ==
    IF /\ d.languageId # "javascript"
       /\ d.languageId # "typescript"
       /\ d.languageId # "javascriptreact"
       /\ d.languageId # "typescriptreact"
    THEN store
    ELSE StoreSet(store, d.uri, updateDiagnostics(d.text).diagnostics)

\* The TextDocument of uri among docs
TextDocument(docs, uri) ==
    [uri |-> uri, languageId |-> docs[uri].languageId, text |-> docs[uri].text]

MaxStoreToks == 1

Uris == {"a", "b"}

LanguageIds == {"typescript", "plaintext"}

\* Pieces of source text: html`</b>`  html`<b>`
StoreToks ==
    { tagPatterns[1] \o <<Backtick, "<", "/", "b", ">", Backtick>>,
      tagPatterns[1] \o <<Backtick, "<", "b", ">", Backtick>> }

\* The number of pieces in a text
StorePieces(text) == Cardinality({k \in 1..Len(text) : text[k] = "h"})

\* vscode.workspace.textDocuments, in its order
textDocuments == <<"a", "b">>

\* "Update diagnostics for all open documents" of activate: the store and
\* the last argument of updateDiagnostics after the first k documents
RECURSIVE StoreAfter(_, _)
StoreAfter(docs, k) ==
    IF k = 0 THEN <<>>
    ELSE IF docs[textDocuments[k]].languageId \in SUPPORTED_LANGUAGES
    THEN UpdateStore(StoreAfter(docs, k - 1),
                     TextDocument(docs, textDocuments[k]))
    ELSE StoreAfter(docs, k - 1)

RECURSIVE LastUpdated(_, _)
LastUpdated(docs, k) ==
    IF k = 0 THEN NoDocument
    ELSE IF docs[textDocuments[k]].languageId \in SUPPORTED_LANGUAGES
    THEN TextDocument(docs, textDocuments[k])
    ELSE LastUpdated(docs, k - 1)

\* The state when activate returns
InitStore ==
    /\ doc = <<>>
    /\ edits = 0
    /\ pc = "idle"
    /\ html = <<>>
    /\ offset = 0
    /\ lastIndex = 0
    /\ stack = <<>>
    /\ diagnostics = <<>>
    /\ validated = <<>>
    /\ content = Null
    /\ NoFolding
    /\ documents \in [Uris -> [languageId : LanguageIds, text : {<<>>}]]
    /\ diagnosticCollection = StoreAfter(documents, Len(textDocuments))
    /\ document = LastUpdated(documents, Len(textDocuments))
    /\ NoCall
    /\ NoConfiguration

\* diagnosticProvider.updateDiagnostics(d)
CallUpdateDiagnostics(d) ==
    /\ document' = d
    /\ diagnosticCollection' = UpdateStore(diagnosticCollection, d)

\* if (SUPPORTED_LANGUAGES.includes(document.languageId)) updateDiagnostics
HandleDocument(d) ==
    IF d.languageId \in SUPPORTED_LANGUAGES
    THEN CallUpdateDiagnostics(d)
    ELSE UNCHANGED <<diagnosticCollection, document>>

\* The text of a document changes: the onDidChangeTextDocument handler
ChangeTextDocument(uri, tok) ==
    /\ pc = "idle"
    /\ StorePieces(documents[uri].text) < MaxStoreToks
    /\ documents' = [documents EXCEPT ![uri].text = @ \o tok]
    /\ HandleDocument(TextDocument(documents', uri))
    /\ UNCHANGED <<doc, edits, pc, html, offset, lastIndex, stack,
                   diagnostics, validated, content, foldVars, callVars,
                   configVars>>

\* A document is closed and opened again under another language: the
\* onDidOpenTextDocument handler
ReopenAs(uri, languageId) ==
    /\ pc = "idle"
    /\ documents[uri].languageId # languageId
    /\ documents' = [documents EXCEPT ![uri].languageId = languageId]
    /\ HandleDocument(TextDocument(documents', uri))
    /\ UNCHANGED <<doc, edits, pc, html, offset, lastIndex, stack,
                   diagnostics, validated, content, foldVars, callVars,
                   configVars>>

\* updateDiagnostics is called for an open document, whatever its language
UpdateDiagnostics(uri) ==
    /\ pc = "idle"
    /\ CallUpdateDiagnostics(TextDocument(documents, uri))
    /\ UNCHANGED <<doc, edits, pc, html, offset, lastIndex, stack,
                   diagnostics, validated, content, foldVars, documents,
                   callVars, configVars>>

\* dispose(), which the host calls when it disposes context.subscriptions
\* (the handlers are disposed with it): the collection is emptied
Dispose ==
    /\ pc = "idle"
    /\ diagnosticCollection' = <<>>
    /\ pc' = "disposed"
    /\ UNCHANGED <<doc, edits, html, offset, lastIndex, stack, diagnostics,
                   validated, content, foldVars, documents, document,
                   callVars, configVars>>

NextStore ==
    \/ \E uri \in Uris, tok \in StoreToks : ChangeTextDocument(uri, tok)
    \/ \E uri \in Uris, languageId \in LanguageIds : ReopenAs(uri, languageId)
    \/ \E uri \in Uris : UpdateDiagnostics(uri)
    \/ Dispose

SpecStore == InitStore /\ [][NextStore]_vars

-----------------------------------------------------------------------------
(* replaceInterpolationsWithPlaceholders on its own output                 *)

MaxNesting == 2

\* Pieces of text without a backtick: nothing, {, }, ', ${
ReplaceAtoms == { <<>>, <<"{">>, <<"}">>, <<"'">>, <<"$", "{">> }

\* pre ${`x`} post
AroundInterpolation(pre, x, post) ==
    pre \o <<"$", "{", Backtick>> \o x \o <<Backtick, "}">> \o post

\* Texts with literals nested in interpolations, at most k levels deep
RECURSIVE NestedTexts(_)
NestedTexts(k) ==
    IF k = 0 THEN ReplaceAtoms
    ELSE ReplaceAtoms
           \cup { AroundInterpolation(pre, x, post) :
                      pre \in ReplaceAtoms, x \in NestedTexts(k - 1),
                      post \in ReplaceAtoms }

InitReplace ==
    /\ doc = <<>>
    /\ edits = 0
    /\ pc = "extracted"
    /\ html = <<>>
    /\ offset = 0
    /\ lastIndex = 0
    /\ stack = <<>>
    /\ diagnostics = <<>>
    /\ validated = <<>>
    /\ content \in NestedTexts(MaxNesting)
    /\ NoFolding
    /\ NoWorkspace
    /\ NoCall
    /\ NoConfiguration

\* The substituter is run on the text it has cleaned
ReplaceCleaned ==
    /\ pc = "replaced"
    /\ html' = replaceInterpolationsWithPlaceholders(html)
    /\ pc' = "replaced again"
    /\ UNCHANGED <<doc, edits, offset, lastIndex, stack, diagnostics,
                   validated, content, foldVars, storeVars, callVars,
                   configVars>>

NextReplace == ReplaceInterpolations \/ ReplaceCleaned

SpecReplace == InitReplace /\ [][NextReplace]_vars

-----------------------------------------------------------------------------
(* Claims about the tag validator (SpecHTML)                               *)

\* The tag tokens of a text, in order: every match of the tag pattern
RECURSIVE TagTokensFrom(_, _)
TagTokensFrom(s, from) ==
    LET m == TagExec(s, from)
    IN  IF m.index = -1 THEN <<>>
        ELSE <<m>> \o TagTokensFrom(s, m.index + Len(m.full))

TagTokens(s) == TagTokensFrom(s, 0)

\* The void elements, as the specification lists them
VoidElements ==
    { <<"a","r","e","a">>, <<"b","a","s","e">>, <<"b","r">>, <<"c","o","l">>,
      <<"e","m","b","e","d">>, <<"h","r">>, <<"i","m","g">>,
      <<"i","n","p","u","t">>, <<"l","i","n","k">>, <<"m","e","t","a">>,
      <<"p","a","r","a","m">>, <<"s","o","u","r","c","e">>,
      <<"t","r","a","c","k">>, <<"w","b","r">> }

TokIsClose(m) == m.full[2] = "/"
TokIsSelfClosed(m) == m.full[Len(m.full) - 1] = "/"
\* an opening tag that opens nothing: void, or written <x/>
TokIsNeutral(m) ==
    ~TokIsClose(m) /\ (m.name \in VoidElements \/ TokIsSelfClosed(m))
TokIsOpen(m) == ~TokIsClose(m) /\ ~TokIsNeutral(m)

RemoveAt(q, k) == SubSeq(q, 1, k - 1) \o SubSeq(q, k + 1, Len(q))

\* Balanced, by rewriting: drop a neutral tag, or an opening tag directly
\* followed by the closing tag of the identical name, until nothing applies
RECURSIVE Reduce(_)
Reduce(q) ==
    IF \E k \in 1..Len(q) : TokIsNeutral(q[k])
    THEN Reduce(RemoveAt(q, CHOOSE k \in 1..Len(q) : TokIsNeutral(q[k])))
    ELSE IF \E k \in 1..(Len(q) - 1) :
               TokIsOpen(q[k]) /\ TokIsClose(q[k + 1]) /\ q[k].name = q[k + 1].name
         THEN LET k == CHOOSE j \in 1..(Len(q) - 1) :
                          TokIsOpen(q[j]) /\ TokIsClose(q[j + 1])
                              /\ q[j].name = q[j + 1].name
              IN  Reduce(RemoveAt(RemoveAt(q, k + 1), k))
         ELSE q

Balanced(s) == Reduce(TagTokens(s)) = <<>>

\* C1: a literal text without interpolations or nested literals whose tag
\* tokens are balanced gets zero diagnostics from validateHTML.
C1_BalancedNoDiagnostics ==
    (pc = "done" /\ Balanced(doc)) => diagnostics = <<>>

C1_Witness ==
    /\ pc = "done"
    /\ Balanced(doc)
    /\ \E k \in 1..Len(TagTokens(doc)) : TokIsNeutral(TagTokens(doc)[k])
    /\ \E k \in 1..Len(TagTokens(doc)) : TokIsClose(TagTokens(doc)[k])
    /\ Len(TagTokens(doc)) >= 4
    /\ diagnostics = <<>>

\* the diagnostics a step appended
Appended(old, new) == SubSeq(new, Len(old) + 1, Len(new))
Extends(old, new) ==
    Len(new) >= Len(old) /\ SubSeq(new, 1, Len(old)) = old

IsUnmatched(d) == d.message[1] = "Unmatched closing tag </"
IsExpected(d) == d.message[1] = "Expected closing tag </"
IsUnclosed(d) == d.message[1] = "Unclosed tag <"

\* C2: a closing tag read while the stack is empty yields exactly one Error
\* 'Unmatched closing tag </name>', leaves the stack empty and the scan goes
\* on with the next tag token; a closing tag read while the stack is not
\* empty yields no 'Unmatched closing tag' diagnostic.
C2_UnmatchedClosing ==
    [][ (pc = "scan" /\ TagExec(html, lastIndex).index # -1
            /\ TokIsClose(TagExec(html, lastIndex))) =>
        LET m == TagExec(html, lastIndex)
            new == Appended(diagnostics, diagnostics')
        IN  /\ Extends(diagnostics, diagnostics')
            /\ stack = <<>> =>
                 /\ Len(new) = 1
                 /\ new[1].severity = "Error"
                 /\ new[1].message =
                        <<"Unmatched closing tag </">> \o m.name \o <<">">>
                 /\ stack' = <<>>
                 /\ pc' = "scan"
                 /\ lastIndex' = m.index + Len(m.full)
            /\ stack # <<>> =>
                 \A k \in 1..Len(new) : ~IsUnmatched(new[k])
      ]_vars

C2_Witness ==
    /\ pc = "scan"
    /\ stack = <<>>
    /\ Len(diagnostics) >= 2
    /\ \A k \in 1..Len(diagnostics) : IsUnmatched(diagnostics[k])
    /\ TagExec(html, lastIndex).index # -1

\* C3: a closing tag read while the stack is not empty pops exactly the top
\* entry; an Error 'Expected closing tag </top> but found </found>' is
\* emitted exactly when the popped name differs from the closing tag's name,
\* character for character including case; nothing deeper is touched.
C3_MismatchPopsTop ==
    [][ (pc = "scan" /\ TagExec(html, lastIndex).index # -1
            /\ TokIsClose(TagExec(html, lastIndex)) /\ stack # <<>>) =>
        LET m == TagExec(html, lastIndex)
            top == stack[Len(stack)]
            new == Appended(diagnostics, diagnostics')
        IN  /\ stack' = SubSeq(stack, 1, Len(stack) - 1)
            /\ Extends(diagnostics, diagnostics')
            /\ top.tag # m.name =>
                 /\ Len(new) = 1
                 /\ new[1].severity = "Error"
                 /\ new[1].message =
                        <<"Expected closing tag </">> \o top.tag
                            \o <<"> but found </">> \o m.name \o <<">">>
            /\ top.tag = m.name => new = <<>>
      ]_vars

\* <B> closed by </b>: the names differ in case only
C3_Witness ==
    /\ pc = "scan"
    /\ Len(stack) = 1
    /\ \E k \in 1..Len(diagnostics) :
          diagnostics[k].message =
              <<"Expected closing tag </", "B", "> but found </", "b", ">">>

\* height of the open-tag stack after the first k tag tokens
RECURSIVE Height(_, _)
Height(q, k) ==
    IF k = 0 THEN 0
    ELSE LET h == Height(q, k - 1)
         IN  IF TokIsOpen(q[k]) THEN h + 1
             ELSE IF TokIsClose(q[k]) /\ h > 0 THEN h - 1
             ELSE h

\* the opening tag that is token k is popped by some later closing tag
PoppedLater(q, k) ==
    \E c \in (k + 1)..Len(q) : Height(q, c) < Height(q, k)

\* C4: when the scan ends, exactly one Warning 'Unclosed tag <name>' per
\* entry left on the stack, in the order the tags were opened; Warning is
\* used for no other kind of diagnostic; an opening tag popped by a closing
\* tag yields no warning.
C4_UnclosedWarnings ==
    LET warns == SelectSeq(diagnostics, LAMBDA d : d.severity = "Warning")
        q == TagTokens(html)
    IN  /\ \A k \in 1..Len(diagnostics) :
               /\ diagnostics[k].severity \in {"Error", "Warning"}
               /\ diagnostics[k].severity = "Warning" <=> IsUnclosed(diagnostics[k])
        /\ pc = "scan" => warns = <<>>
        /\ pc = "done" =>
             /\ Len(warns) = Len(stack)
             /\ warns = Appended(SubSeq(diagnostics, 1,
                                        Len(diagnostics) - Len(stack)),
                                 diagnostics)
             /\ \A k \in 1..Len(stack) :
                   /\ warns[k].message =
                          <<"Unclosed tag <">> \o stack[k].tag \o <<">">>
                   /\ \E t \in 1..Len(q) :
                         /\ q[t].index = stack[k].pos - offset
                         /\ q[t].name = stack[k].tag
                         /\ TokIsOpen(q[t])
                         /\ ~PoppedLater(q, t)
                         /\ warns[k].range.start =
                                [line |-> 0, character |-> offset + q[t].index]
             /\ \A j, k \in 1..Len(stack) :
                   j < k => stack[j].pos < stack[k].pos
             /\ Len(stack) =
                    Cardinality({t \in 1..Len(q) :
                                    TokIsOpen(q[t]) /\ ~PoppedLater(q, t)})

C4_Witness ==
    /\ pc = "done"
    /\ Len(stack) = 2
    /\ stack[1].tag # stack[2].tag
    /\ Len(diagnostics) = 2
    /\ \E t \in 1..Len(TagTokens(html)) :
          TokIsOpen(TagTokens(html)[t]) /\ PoppedLater(TagTokens(html), t)

\* C5: a void element or an opening tag ending in '/>' is never pushed: at
\* every point of the scan the stack holds no void or self-closing element,
\* and no unclosed-tag warning names one.
C5_VoidNeverPushed ==
    /\ \A k \in 1..Len(stack) :
          /\ stack[k].tag \notin VoidElements
          /\ TagMatchAt(html, stack[k].pos - offset).index # -1
          /\ ~TokIsSelfClosed(TagMatchAt(html, stack[k].pos - offset))
    /\ \A k \in 1..Len(diagnostics) :
          IsUnclosed(diagnostics[k]) =>
             /\ \A v \in VoidElements :
                   diagnostics[k].message # <<"Unclosed tag <">> \o v \o <<">">>
             /\ LET at == diagnostics[k].range.start.character - offset
                IN  ~TokIsSelfClosed(TagMatchAt(html, at))

C5_Witness ==
    /\ pc = "done"
    /\ Len(stack) >= 1
    /\ \E t \in 1..Len(TagTokens(html)) :
          TagTokens(html)[t].name \in VoidElements
              /\ ~TokIsClose(TagTokens(html)[t])
    /\ \E t \in 1..Len(TagTokens(html)) : TokIsSelfClosed(TagTokens(html)[t])

-----------------------------------------------------------------------------
(* Claims about updateDiagnostics (SpecDoc)                                *)

NoDuplicates(q) == \A i, j \in 1..Len(q) : q[i] = q[j] => i = j

\* C6: in one updateDiagnostics pass every literal, top-level or nested, is
\* validated exactly once, so no literal's offset occurs twice among the
\* validateHTML calls of the pass and no diagnostic occurs twice in the
\* document's merged list.
C6_ValidatedOnce ==
    NoDuplicates(validated) /\ NoDuplicates(diagnostics)

\* The name of the closing tag an Error diagnostic reports: what follows the
\* last "</" of its message
ReportedTag(d) ==
    LET k == CHOOSE k \in 1..Len(d.message) :
                d.message[k] \in {"Unmatched closing tag </", "> but found </"}
    IN  SubSeq(d.message, k + 1, Len(d.message) - 1)

\* s is one closing tag with the given name
IsClosingTagOf(s, name) ==
    /\ StartsWith(s, <<"<", "/">> \o name)
    /\ IndexOfChar(s, ">", 0) = Len(s) - 1
    /\ At(s, 2 + Len(name)) \notin AlphaNum \cup {"-"}

\* C7: the range of every Error diagnostic is the span of the closing tag it
\* reports: the document text between the range's start and end is exactly
\* that closing tag, also after interpolations and nested literals that were
\* replaced by text of another length.
C7_ErrorRangeIsTag ==
    \A k \in 1..Len(diagnostics) :
        diagnostics[k].severity = "Error" =>
            IsClosingTagOf(TextOfRange(doc, diagnostics[k].range),
                           ReportedTag(diagnostics[k]))

-----------------------------------------------------------------------------
(* Claims about the scanners (SpecScan)                                    *)

\* A lexer of template literals that keeps the stack of open contexts:
\* "T" the text of a literal, "C" the code of an interpolation or of a brace
\* block in it, and a quote character for the string it opened. low is the
\* stack height at which the scan ends, end the offset where it ended (-1:
\* never), escText whether a backslash occurred in the text of a literal,
\* nested whether a literal was opened inside an interpolation.
LexStep(text, r) ==
    LET c == At(text, r.i)
        top == r.ctx[Len(r.ctx)]
        pop == SubSeq(r.ctx, 1, Len(r.ctx) - 1)
        leave == [r EXCEPT !.ctx = pop,
                           !.end = IF Len(pop) = r.low THEN r.i ELSE -1,
                           !.i = r.i + 1]
    IN  IF top = "T"
        THEN IF c = "\\"
             THEN [r EXCEPT !.i = r.i + 2, !.escText = TRUE]
             ELSE IF c = Backtick THEN leave
             ELSE IF c = "$" /\ At(text, r.i + 1) = "{"
             THEN [r EXCEPT !.ctx = Append(r.ctx, "C"), !.i = r.i + 2]
             ELSE [r EXCEPT !.i = r.i + 1]
        ELSE IF top = "C"
        THEN IF c \in Quotes
             THEN [r EXCEPT !.ctx = Append(r.ctx, c), !.i = r.i + 1]
             ELSE IF c = Backtick
             THEN [r EXCEPT !.ctx = Append(r.ctx, "T"), !.i = r.i + 1,
                            !.nested = TRUE]
             ELSE IF c = "{"
             THEN [r EXCEPT !.ctx = Append(r.ctx, "C"), !.i = r.i + 1]
             ELSE IF c = "}" THEN leave
             ELSE [r EXCEPT !.i = r.i + 1]
        ELSE IF c = "\\" THEN [r EXCEPT !.i = r.i + 2]
        ELSE IF c = top THEN [r EXCEPT !.ctx = pop, !.i = r.i + 1]
        ELSE [r EXCEPT !.i = r.i + 1]

RECURSIVE LexRun(_, _)
LexRun(text, r) ==
    IF r.end # -1 \/ r.i >= Len(text) THEN r
    ELSE LexRun(text, LexStep(text, r))

\* The lexer run on a literal whose text starts at startPos
LexLiteral(text, startPos) ==
    LexRun(text, [i |-> startPos, ctx |-> <<"T">>, low |-> 0, end |-> -1,
                  escText |-> FALSE, nested |-> FALSE])

\* Offset of the closing brace of the interpolation whose code starts at from
LexInterpolationEnd(text, from) ==
    LexRun(text, [i |-> from, ctx |-> <<"T", "C">>, low |-> 1, end |-> -1,
                  escText |-> FALSE, nested |-> FALSE]).end

\* The text of a literal with every interpolation replaced by the placeholder
RECURSIVE LexReplaced(_, _)
LexReplaced(text, i) ==
    IF i >= Len(text) THEN <<>>
    ELSE IF At(text, i) = "$" /\ At(text, i + 1) = "{"
              /\ LexInterpolationEnd(text, i + 2) # -1
    THEN Placeholder \o LexReplaced(text, LexInterpolationEnd(text, i + 2) + 1)
    ELSE <<At(text, i)>> \o LexReplaced(text, i + 1)

\* Where extractTemplateContent ended the literal (-1: it returned null)
ContentEnd == IF content = Null THEN -1 ELSE offset + Len(content)

Scanned == pc \in {"extracted", "replaced"}

\* C8: extractTemplateContent returns the text up to the first backtick
\* that is not escaped by a backslash: in a literal without interpolations,
\* an escaped backtick is part of the content and does not end it.
C8_EscapedBacktickInText ==
    (Scanned /\ "$" \notin Range(doc)) =>
        ContentEnd = LexLiteral(ScanDocument(doc), offset).end

\* C9: braces inside a quoted string of an interpolation never change the
\* interpolation depth and a string is closed only by the quote that opened
\* it: for a literal without nested literals and without escapes in its own
\* text, extractTemplateContent ends the literal, and
\* replaceInterpolationsWithPlaceholders every interpolation, where the
\* lexer that skips the strings does.
C9_BracesInStrings ==
    LET lex == LexLiteral(ScanDocument(doc), offset)
    IN  (Scanned /\ ~lex.nested /\ ~lex.escText) =>
            /\ ContentEnd = lex.end
            /\ pc = "replaced" => html = LexReplaced(content, 0)

\* C10: for literals nested to any depth extractTemplateContent ends the
\* outermost literal at its own closing backtick: in a text without
\* backslashes it ends where the lexer that keeps the stack of contexts does.
C10_NestedAnyDepth ==
    (Scanned /\ "\\" \notin Range(doc)) =>
        ContentEnd = LexLiteral(ScanDocument(doc), offset).end

\* The text with every backslash replaced by the letter a
Unescaped(text) == [k \in 1..Len(text) |-> IF text[k] = "\\" THEN "a" ELSE text[k]]

\* Every backslash of the text is one of a pair: none stands before a backtick
BackslashesPaired(text) ==
    \A k \in 1..Len(text) :
        text[k] = "\\" => At(text, k) # Backtick

\* Where extractTemplateContent ends the literal that starts at startPos
EndOfContent(text, startPos, c) == IF c = Null THEN -1 ELSE startPos + Len(c)

\* C22: an escaped backslash (two backslashes in a row) escapes nothing
\* after it, so the quote or backtick that follows it is a real delimiter:
\* on a text whose backslashes all come in pairs, extractTemplateContent
\* ends the literal, and replaceInterpolationsWithPlaceholders replaces the
\* interpolations, as on the same text with the letter a in place of every
\* backslash.
C22_EscapedBackslashEscapesNothing ==
    (Scanned /\ BackslashesPaired(doc)) =>
        /\ ContentEnd =
               EndOfContent(Unescaped(ScanDocument(doc)), offset,
                   extractTemplateContent(Unescaped(ScanDocument(doc)), offset))
        /\ pc = "replaced" =>
               Unescaped(html)
                   = replaceInterpolationsWithPlaceholders(Unescaped(content))


-----------------------------------------------------------------------------
(* Claims about a pass over an opened document (SpecOpen)                  *)

\* The candidates of a document: for every match of the leader pattern, in
\* order, the offset after its backtick, the content extracted from there
\* and whether the backtick lies in a comment
CandidateOf(text, m) ==
    [offset |-> m.end, content |-> extractTemplateContent(text, m.end),
     commented |-> isInsideComment(text, m.end - 1)]

RECURSIVE CandidatesFrom(_, _)
CandidatesAt(text, m) ==
    IF m.index = -1 THEN <<>>
    ELSE <<CandidateOf(text, m)>> \o CandidatesFrom(text, m.end)

CandidatesFrom(text, from) ==
    CandidatesAt(text, LeaderExec(text, from, tagPatterns, TRUE))

Candidates(text) == CandidatesFrom(text, 0)

IsUnclosedCandidate(c) == c.content = Null
IsLiteral(c) == c.content # Null /\ ~c.commented

\* The diagnostics of the literals among the candidates cs, in order
RECURSIVE DiagnosticsOf(_, _, _)
DiagnosticsOf(text, cs, k) ==
    IF k > Len(cs) THEN <<>>
    ELSE (IF IsLiteral(cs[k])
          THEN validateHTML(cs[k].content, cs[k].offset, text).diagnostics
          ELSE <<>>) \o DiagnosticsOf(text, cs, k + 1)

\* The candidates cs of the text are handled as C11 says by a pass that
\* made the calls and left the diagnostics given
UnclosedSkipped(text, cs, calls, diags) ==
    /\ \A k \in 1..Len(cs) :
          IF IsUnclosedCandidate(cs[k])
          THEN cs[k].offset \notin Range(calls)
          ELSE IsLiteral(cs[k]) => cs[k].offset \in Range(calls)
    /\ diags = DiagnosticsOf(text, cs, 1)

\* C11: a candidate whose closing backtick is not found before the end of
\* the text is not validated and adds no diagnostic, and the pass goes on:
\* every other candidate outside comments is validated, and the diagnostics
\* of the pass are those of these literals, in order.
C11_UnclosedSkipped ==
    pc = "open" => UnclosedSkipped(doc, Candidates(doc), validated, diagnostics)

\* In cs an unclosed candidate is followed by a literal that has a diagnostic
UnclosedThenReported(text, cs) ==
    \E j, k \in 1..Len(cs) :
        /\ j < k
        /\ IsUnclosedCandidate(cs[j])
        /\ IsLiteral(cs[k])
        /\ validateHTML(cs[k].content, cs[k].offset, text).diagnostics # <<>>

C11_Witness ==
    /\ pc = "open"
    /\ diagnostics # <<>>
    /\ UnclosedThenReported(doc, Candidates(doc))

\* The text of a literal without its interpolations
RECURSIVE LexOwnText(_, _)
LexOwnText(text, i) ==
    IF i >= Len(text) THEN <<>>
    ELSE IF At(text, i) = "$" /\ At(text, i + 1) = "{"
              /\ LexInterpolationEnd(text, i + 2) # -1
    THEN LexOwnText(text, LexInterpolationEnd(text, i + 2) + 1)
    ELSE <<At(text, i)>> \o LexOwnText(text, i + 1)

\* The first literal in the code of an interpolation: where its leader
\* starts, where its content starts and ends (end -1: not closed); index -1
\* if the code holds no literal
LexLiteralIn(code, m) ==
    IF m.index = -1 THEN [index |-> -1, start |-> -1, end |-> -1]
    ELSE [index |-> m.index, start |-> m.end,
          end |-> LexLiteral(code, m.end).end]

LexFirstLiteral(code) ==
    LexLiteralIn(code, LeaderExec(code, 0, tagPatterns, TRUE))

LexContent(code, lit) ==
    IF lit.end = -1 THEN Null ELSE Substring(code, lit.start, lit.end)

\* The contents of the literals nested in the interpolations of a text
RECURSIVE LexNested(_, _)
LexNestedIn(text, i, e, code) ==
    (IF LexFirstLiteral(code).index = -1 THEN <<>>
     ELSE <<LexContent(code, LexFirstLiteral(code))>>)
        \o LexNested(text, e + 1)

LexNested(text, i) ==
    IF i >= Len(text) THEN <<>>
    ELSE IF At(text, i) = "$" /\ At(text, i + 1) = "{"
              /\ LexInterpolationEnd(text, i + 2) # -1
    THEN LexNestedIn(text, i, LexInterpolationEnd(text, i + 2),
                     Substring(text, i + 2, LexInterpolationEnd(text, i + 2)))
    ELSE LexNested(text, i + 1)

\* The document is one closed literal of the first leader
OneLiteral ==
    /\ StartsWith(doc, tagPatterns[1] \o <<Backtick>>)
    /\ LexLiteral(doc, Len(tagPatterns[1]) + 1).end = Len(doc) - 1

\* Its content
OneContent == Substring(doc, Len(tagPatterns[1]) + 1, Len(doc) - 1)

\* The nested literals ns are one or more and all closed
AllClosed(ns) == ns # <<>> /\ \A k \in 1..Len(ns) : ns[k] # Null

AllBalanced(ns) == \A k \in 1..Len(ns) : Balanced(ns[k])

\* The literal holds nested literals, all of them closed
NestedClosed == OneLiteral /\ AllClosed(LexNested(OneContent, 0))

\* C13: an outer literal whose own tags are balanced, with an interpolation
\* that holds a nested literal whose tags are balanced, gets no diagnostic
\* in a pass over the document, neither for the outer nor for the nested
\* literal.
C13_BalancedNestedClean ==
    (/\ pc = "open"
     /\ NestedClosed
     /\ Balanced(LexOwnText(OneContent, 0))
     /\ AllBalanced(LexNested(OneContent, 0)))
        => diagnostics = <<>>

\* own and inner are both one element, <b></b>
BothElements(own, inner) ==
    /\ Balanced(own) /\ Len(TagTokens(own)) = 2
    /\ Balanced(inner) /\ Len(TagTokens(inner)) = 2

\* A nested <b></b> lies between the outer literal's <b> and </b>
C13_Witness ==
    /\ pc = "open"
    /\ NestedClosed
    /\ BothElements(LexOwnText(OneContent, 0), LexNested(OneContent, 0)[1])
    /\ At(OneContent, 0) = "<"
    /\ At(OneContent, Len(OneContent) - 1) = ">"
    /\ validated # <<>>
    /\ diagnostics = <<>>

\* The text validateHTML hands to the interpolation substituter for the
\* literal content h: h after "Replace all nested templates with their outer
\* structures"
NestedReplaced(h) ==
    ReplaceNested(h, NestedTemplatesFrom(h, Len(tagPatterns[1]) + 1, 0), 0)

NoLeader(text) == LeaderExec(text, 0, tagPatterns, TRUE).index = -1

\* C20: when the outer literal holds closed nested literals, the text that
\* validateHTML hands to the interpolation substituter has every nested
\* literal replaced by its outer structure, so that it contains no leader
\* followed by a backtick.
C20_NestedReplacedBeforeScan ==
    (pc = "open" /\ NestedClosed) => NoLeader(NestedReplaced(OneContent))


\* Where the content of the nested literal of the document starts: after the
\* first ${, the leader and the backtick
NestedStart(text) ==
    Min({k \in 0..Len(text) : StartsWithAt(text, <<"$", "{">>, k)})
        + 2 + Len(tagPatterns[2]) + 1

\* The diagnostic d lies in the literal whose content is text[a..b)
InLiteral(d, a, b) ==
    d.range.start.character >= a /\ d.range.start.character < b

\* In ds no diagnostic of the literal at [a, b) follows a diagnostic of the
\* literal that encloses it
InnermostFirst(ds, a, b) ==
    \A i, j \in 1..Len(ds) :
        i < j => ~(~InLiteral(ds[i], a, b) /\ InLiteral(ds[j], a, b))

\* C21: in the diagnostics of one pass, every diagnostic of the nested
\* literal comes before every diagnostic of the literal that encloses it.
C21_InnermostFirst ==
    (pc = "open" /\ NestedClosed)
        => InnermostFirst(diagnostics, NestedStart(doc),
                          LexLiteral(doc, NestedStart(doc)).end)


-----------------------------------------------------------------------------
(* Claims about comments (SpecComment)                                     *)

\* A lexer of the program source that keeps the stack of open contexts:
\* "C" code (the program, an interpolation or a brace block), "K" a block
\* comment, "T" the text of a literal, and a quote character for the string
\* it opened
SrcStep(text, r) ==
    LET c == At(text, r.i)
        n == At(text, r.i + 1)
        top == r.ctx[Len(r.ctx)]
        pop == SubSeq(r.ctx, 1, Len(r.ctx) - 1)
    IN  IF top = "K"
        THEN IF c = "*" /\ n = "/"
             THEN [i |-> r.i + 2, ctx |-> pop]
             ELSE [r EXCEPT !.i = r.i + 1]
        ELSE IF top = "C"
        THEN IF c = "/" /\ n = "*"
             THEN [i |-> r.i + 2, ctx |-> Append(r.ctx, "K")]
             ELSE IF c \in Quotes \cup {"{"}
             THEN [i |-> r.i + 1,
                   ctx |-> Append(r.ctx, IF c = "{" THEN "C" ELSE c)]
             ELSE IF c = Backtick
             THEN [i |-> r.i + 1, ctx |-> Append(r.ctx, "T")]
             ELSE IF c = "}" /\ Len(r.ctx) > 1
             THEN [i |-> r.i + 1, ctx |-> pop]
             ELSE [r EXCEPT !.i = r.i + 1]
        ELSE IF c = "\\" THEN [r EXCEPT !.i = r.i + 2]
        ELSE IF top = "T"
        THEN IF c = Backtick THEN [i |-> r.i + 1, ctx |-> pop]
             ELSE IF c = "$" /\ n = "{"
             THEN [i |-> r.i + 2, ctx |-> Append(r.ctx, "C")]
             ELSE [r EXCEPT !.i = r.i + 1]
        ELSE IF c = top THEN [i |-> r.i + 1, ctx |-> pop]
        ELSE [r EXCEPT !.i = r.i + 1]

RECURSIVE SrcRun(_, _, _)
SrcRun(text, r, position) ==
    IF r.i >= position \/ r.i >= Len(text) THEN r
    ELSE SrcRun(text, SrcStep(text, r), position)

\* The character at position lies in a block comment of the source
SrcInComment(text, position) ==
    LET r == SrcRun(text, [i |-> 0, ctx |-> <<"C">>], position)
    IN  r.ctx[Len(r.ctx)] = "K"

\* No candidate of cs whose backtick lies in a block comment is among calls
CommentedSkipped(text, cs, calls) ==
    \A k \in 1..Len(cs) :
        SrcInComment(text, cs[k].offset - 1)
            => cs[k].offset \notin Range(calls)

\* C12: a leader and backtick whose backtick lies inside a block comment of
\* the source is never taken as the start of a literal, whatever text
\* precedes the comment: it is not validated, so it adds no diagnostic.
C12_CommentedNeverValidated ==
    pc = "open" => CommentedSkipped(doc, Candidates(doc), validated)

-----------------------------------------------------------------------------
(* Claims about fold ranges (SpecFold)                                     *)

\* The call ran to its end without a read of a set cancellation signal
FoldCompleted == pc = "returned" /\ ~isCancellationRequested

\* The document starts with a literal of the first leader, closed at the
\* offset the context-stack lexer finds
FirstLiteralStart == Len(tagPatterns[1]) + 1

FirstLiteralEnd == LexLiteral(doc, FirstLiteralStart).end

FirstLiteralClosed ==
    /\ StartsWith(doc, tagPatterns[1] \o <<Backtick>>)
    /\ FirstLiteralEnd # -1

LineOf(text, position) ==
    Cardinality({k \in 1..position : text[k] = "\n"})

\* ranges holds the range from line 0 to endLine exactly if endLine >= 2
RangeIffThreeLines(endLine, ranges) ==
    (endLine >= 2) <=> ([start |-> 0, end |-> endLine] \in Range(ranges))

\* C14: a fold range is computed for a literal exactly if the line of its
\* closing backtick minus the line of the first character of its leader is
\* at least 2, and the range goes from the leader's line to the closing
\* backtick's line (stated for the literal that starts the document).
C14_RangeIffThreeLines ==
    (FoldCompleted /\ FirstLiteralClosed)
        => RangeIffThreeLines(LineOf(doc, FirstLiteralEnd), foldingRanges)

StrictlyInside(range, otherRange) ==
    /\ otherRange.start <= range.start
    /\ range.end <= otherRange.end
    /\ otherRange # range

Outermost(range, ranges) ==
    ~ \E k \in 1..Len(ranges) : StrictlyInside(range, ranges[k])

RECURSIVE OutermostOf(_, _)
OutermostOf(ranges, all) ==
    IF ranges = <<>> THEN <<>>
    ELSE (IF Outermost(Head(ranges), all) THEN <<Head(ranges)>> ELSE <<>>)
             \o OutermostOf(Tail(ranges), all)

\* C15: when the call runs to its filter, no returned range is strictly
\* contained in another computed range, and every computed range that is
\* not strictly contained in another computed range is returned, in the
\* order computed; identical ranges are all kept.
C15_OnlyOutermostReturned ==
    FoldCompleted => filteredRanges = OutermostOf(foldingRanges, foldingRanges)

\* A nested literal's range was computed and is not returned, its
\* ancestor's range is
C15_Witness ==
    /\ FoldCompleted
    /\ Len(foldingRanges) = 2
    /\ StrictlyInside(foldingRanges[2], foldingRanges[1])
    /\ filteredRanges = <<foldingRanges[1]>>

\* C16: for the offset just after the opening backtick of the leader match
\* the loop has just processed, findClosingBacktick returns the offset at
\* which extractTemplateContent ends the content, or -1 exactly when
\* extractTemplateContent returns null.
C16_ClosingBacktickIsContentEnd ==
    (pc = "loop" /\ lastIndex > 0)
        => findClosingBacktick(doc, lastIndex) = ExtractEnd(doc, lastIndex)

\* The ranges of all leader matches of text from offset from on
RECURSIVE RangesFrom(_, _)
RangesAt(text, m) ==
    IF m.index = -1 THEN <<>>
    ELSE FoldRangeOf(text, m) \o RangesFrom(text, m.end)

RangesFrom(text, from) == RangesAt(text, FoldExec(text, from))

\* The loop reads the cancellation signal: it is at a further leader match
AtRead == pc = "loop" /\ FoldExec(doc, lastIndex).index # -1

ReturnedOutermost(result, ranges) == result = OutermostOf(ranges, ranges)

\* C17: a read of the cancellation signal at the start of a loop iteration
\* that finds it set makes the call return the empty list at once, whatever
\* ranges it has accumulated; a call that returns without such a read
\* returns the filtered list of the ranges of all leader matches.
C17_CancelledReturnsEmpty ==
    [][ /\ (AtRead /\ isCancellationRequested)
            => (pc' = "returned" /\ filteredRanges' = <<>>)
        /\ (pc = "loop" /\ pc' = "returned"
               /\ ~(AtRead /\ isCancellationRequested))
            => ReturnedOutermost(filteredRanges', RangesFrom(doc, 0)) ]_vars

\* The call was cancelled after it had computed a range
C17_Witness ==
    /\ pc = "returned"
    /\ isCancellationRequested
    /\ foldingRanges # <<>>
    /\ filteredRanges = <<>>

-----------------------------------------------------------------------------
(* Claims about the diagnostic store (SpecStore)                           *)

\* An updateDiagnostics call is made in the step
CallMade ==
    /\ pc' = "idle"
    /\ document' # document \/ diagnosticCollection' # diagnosticCollection

\* after is before with the entry of uri set to diags, and no other change
OnlyEntrySet(before, after, uri, diags) ==
    /\ DOMAIN after = DOMAIN before \cup {uri}
    /\ after[uri] = diags
    /\ \A u \in DOMAIN before : u # uri => after[u] = before[u]

\* The diagnostics of a fresh pass over text
FreshDiagnostics(text) == updateDiagnostics(text).diagnostics

\* What the call with document d does to the store
CallEffect(d, before, after) ==
    IF d.languageId \in SUPPORTED_LANGUAGES
    THEN OnlyEntrySet(before, after, d.uri, FreshDiagnostics(d.text))
    ELSE after = before

\* C18: an updateDiagnostics call for a document of a supported language
\* sets the document's entry of the store to the diagnostics of a fresh
\* pass over the text the document has at the call, with nothing of the
\* earlier entry kept, and changes no other document's entry; a call with
\* any other language id leaves the whole store unchanged.
C18_StoreHoldsLastSnapshot ==
    [][ CallMade
            => /\ document' = TextDocument(documents', document'.uri)
               /\ CallEffect(document', diagnosticCollection,
                             diagnosticCollection') ]_vars

\* The last call was made with an unsupported language for a document whose
\* entry, set when its language was supported, differs from a fresh pass
\* over its text; the other document's entry holds a diagnostic
StaleEntryKept(d, store) ==
    /\ d.languageId \notin SUPPORTED_LANGUAGES
    /\ DOMAIN store = Uris
    /\ store[d.uri] # FreshDiagnostics(d.text)
    /\ \E u \in Uris \ {d.uri} : store[u] # <<>>

C18_Witness ==
    document # NoDocument /\ StaleEntryKept(document, diagnosticCollection)

-----------------------------------------------------------------------------
(* Claims about the substituter on its own output (SpecReplace)            *)

\* Every ${ of the text from offset i on has its closing brace, as the
\* context-stack lexer finds it
RECURSIVE AllMatched(_, _)
AllMatched(text, i) ==
    IF i >= Len(text) THEN TRUE
    ELSE IF At(text, i) = "$" /\ At(text, i + 1) = "{"
    THEN /\ LexInterpolationEnd(text, i + 2) # -1
         /\ AllMatched(text, LexInterpolationEnd(text, i + 2) + 1)
    ELSE AllMatched(text, i + 1)

\* C19: replaceInterpolationsWithPlaceholders applied to its own output
\* returns that output unchanged, and when every ${ of the input has a
\* matching closing brace the output contains no ${ at all.
C19_IdempotentAndComplete ==
    /\ pc = "replaced again"
           => html = replaceInterpolationsWithPlaceholders(content)
    /\ (pc = "replaced" /\ AllMatched(content, 0))
           => ~Includes(html, <<"$", "{">>)

-----------------------------------------------------------------------------
(* Claims about the literal starts of the fold ranges (SpecLeader)         *)

\* The fold range of the literal the validator validates at the leader
\* match m with content c, if the literal spans three lines or more
StartRange(text, m, c) ==
    IF c = Null \/ isInsideComment(text, m.end - 1) THEN <<>>
    ELSE IF LineOf(text, m.end + Len(c)) - LineOf(text, m.index) >= 2
    THEN << [start |-> LineOf(text, m.index),
             end |-> LineOf(text, m.end + Len(c))] >>
    ELSE <<>>

\* The fold ranges of the literal starts of the validator: the matches of
\* tagRegex that are not inside a block comment
RECURSIVE StartRangesFrom(_, _)
StartRangesAt(text, m) ==
    IF m.index = -1 THEN <<>>
    ELSE StartRange(text, m, extractTemplateContent(text, m.end))
             \o StartRangesFrom(text, m.end)

StartRangesFrom(text, from) ==
    StartRangesAt(text, LeaderExec(text, from, tagPatterns, TRUE))

\* C23: the fold ranges are computed for exactly the literal starts of the
\* validator: a leader and backtick inside a block comment gives no range,
\* and the bare annotation followed by a backtick gives one when its
\* literal spans at least three lines.
C23_FoldStartsAreValidatorStarts ==
    FoldCompleted => foldingRanges = StartRangesFrom(doc, 0)

-----------------------------------------------------------------------------
(* Claims about tags with attributes (SpecAttr)                            *)

\* The tag name an Unclosed tag diagnostic reports
UnclosedTag(d) == SubSeq(d.message, 2, Len(d.message) - 1)

\* s is one opening tag with the given name, from its < to its >
IsOpeningTagOf(s, name) ==
    /\ StartsWith(s, <<"<">> \o name)
    /\ IndexOfChar(s, ">", 0) = Len(s) - 1
    /\ At(s, 1 + Len(name)) \notin AlphaNum

\* C24: the range of every Unclosed tag Warning is the whole opening tag it
\* reports: the document text between the range's start and end goes from
\* the tag's < to its closing >, also when the tag carries attributes.
C24_UnclosedRangeIsTag ==
    \A k \in 1..Len(diagnostics) :
        diagnostics[k].severity = "Warning" =>
            IsOpeningTagOf(TextOfRange(doc, diagnostics[k].range),
                           UnclosedTag(diagnostics[k]))

-----------------------------------------------------------------------------
(* Claims about the outer structure of a nested literal (SpecOuter)        *)

\* The text without its leading whitespace and leading interpolations, an
\* interpolation ending where the context-stack lexer ends it
RECURSIVE LeadingStripped(_)
LeadingStripped(text) ==
    IF text # <<>> /\ text[1] \in WhiteSpace THEN LeadingStripped(Tail(text))
    ELSE IF StartsWith(text, <<"$", "{">>)
              /\ LexInterpolationEnd(text, 2) # -1
    THEN LeadingStripped(SubstringFrom(text, LexInterpolationEnd(text, 2) + 1))
    ELSE text

\* The fragment C25 describes for a text whose leading tag is the match m
FragmentOf(m) ==
    IF m.index = -1 \/ TokIsClose(m)
    THEN <<"<", "s", "p", "a", "n", ">", "<", "/", "s", "p", "a", "n", ">">>
    ELSE IF TokIsSelfClosed(m) THEN m.full
    ELSE <<"<">> \o m.name \o <<">", "<", "/">> \o m.name \o <<">">>

\* C25: extractOuterTags returns the first leading opening tag itself when
\* it ends with />, <T></T> for the name T of the first opening tag after
\* the leading whitespace and interpolations, or <span></span> when there
\* is none; and the fragment, scanned alone by the tag validator, gives no
\* diagnostic.
C25_OuterStructureIsClean ==
    /\ pc \in {"outer", "scanned"}
           => html = FragmentOf(TagMatchAt(LeadingStripped(content), 0))
    /\ pc = "scanned" => diagnostics = <<>>

-----------------------------------------------------------------------------
(* Claims about termination (SpecCallFair)                                 *)

\* The scanner states of the character loops at index i
ExtractStates(i) ==
    { [i |-> i, depth |-> d, inString |-> str, inNestedTemplate |-> tpl,
       stringChar |-> q, returned |-> FALSE] :
          d \in 0..2, str \in BOOLEAN, tpl \in BOOLEAN, q \in Quotes }

InterpolationStates(i) ==
    { [i |-> i, depth |-> d, inString |-> str, inTemplate |-> tpl,
       stringChar |-> q] :
          d \in 1..2, str \in BOOLEAN, tpl \in BOOLEAN, q \in Quotes }

CommentStates(i) ==
    { [i |-> i, inComment |-> c, inString |-> str, inTemplateString |-> tpl,
       templateDepth |-> d, stringChar |-> q] :
          c \in BOOLEAN, str \in BOOLEAN, tpl \in BOOLEAN, d \in 0..1,
          q \in Quotes }

\* An iteration of a character loop over text leaves the loop or moves on
CharLoopsAdvance(text) ==
    \A i \in 0..(Len(text) - 1) :
        /\ \A s \in ExtractStates(i) :
               ExtractStep(text, s).returned \/ ExtractStep(text, s).i > i
        /\ \A s \in InterpolationStates(i) :
               InterpolationStep(text, s).depth = 0
                   \/ InterpolationStep(text, s).i > i
        /\ \A s \in CommentStates(i) : CommentStep(text, s).i > i

\* A match of a regular-expression loop over text ends after the index
\* the search started from
MatchLoopsAdvance(text) ==
    \A from \in 0..Len(text) :
        /\ LeaderExec(text, from, tagPatterns, TRUE).index # -1
               => LeaderExec(text, from, tagPatterns, TRUE).end > from
        /\ LazyLeaderExec(text, from).index # -1
               => LazyLeaderExec(text, from).end > from
        /\ TagExec(text, from).index # -1
               => TagExec(text, from).index + Len(TagExec(text, from).full)
                      > from

\* The loops over the document when updateDiagnostics starts, over the
\* text of a validateHTML call when it starts, and over its cleaned text
ScansAdvance ==
    /\ pc = "update" /\ lastIndex = 0
           => CharLoopsAdvance(doc) /\ MatchLoopsAdvance(doc)
    /\ pc = "nested" /\ nestedIndex = 1
           => CharLoopsAdvance(content) /\ MatchLoopsAdvance(content)
    /\ pc = "replace"
           => CharLoopsAdvance(html) /\ MatchLoopsAdvance(html)

PassMade == pc = "replace" /\ iterations' = iterations + 1

CallMadeNested == Len(frames') > Len(frames)

\* C26: updateDiagnostics terminates on every finite document: the
\* replacement loop of validateHTML runs at most 20 passes and a pass runs
\* only while the pass before it made a replacement, a recursive
\* validateHTML call gets a text strictly shorter than its caller's, every
\* scanning loop moves on in every iteration, and the handler reaches its
\* return.
C26_UpdateDiagnosticsTerminates ==
    /\ [](iterations <= maxIterations)
    /\ [](ScansAdvance)
    /\ [][PassMade => replacementsMade /\ iterations < maxIterations]_vars
    /\ [][pc = "replace" /\ ~replacementsMade
              => iterations' = iterations]_vars
    /\ [][CallMadeNested => Len(content') < Len(content)]_vars
    /\ [][pc = "update" /\ pc' # "done" => lastIndex' > lastIndex]_vars
    /\ <>(pc = "done")

\* Inside a recursive call the replacement loop has stopped after the pass
\* that made no replacement
C26_Witness ==
    /\ frames # <<>>
    /\ pc = "replace"
    /\ iterations = 2
    /\ ~replacementsMade

-----------------------------------------------------------------------------
(* Claims about the folding strategy setting (SpecConfig)                  *)

\* activate and then deactivate have run, once each, and no write is
\* pending
Restored ==
    /\ activations = 1
    /\ pc = "deactivated"
    /\ pendingUpdates = <<>>

\* The write that activate requested is pending
ActivateWrote == \E k \in DOMAIN pendingUpdates : pendingUpdates[k].notify

\* C27: for every initial value of the global foldingStrategy setting,
\* unset included, the setting has the value it had before activate again
\* after activate and then deactivate, once the pending writes have
\* completed; and activate writes the setting only when its value is not
\* 'indentation'.
C27_SettingRestored ==
    /\ Restored => foldingStrategy = settingBefore
    /\ activations = 1 /\ ActivateWrote => settingBefore # "indentation"
====
